---- MODULE Spec2Model ----
(***************************************************************************)
(* Model of the task-automation agent of backend/agent.py and its tool     *)
(* adapters (backend/toolkits/*.py) and oracle (backend/llm_agent.py).     *)
(*                                                                         *)
(* One run of the model is one top-level invocation: either handle_task    *)
(* (entry = "handle_task") or one tool adapter called directly with an     *)
(* arbitrary max_retries (entry = the adapter's name).  The oracle, the    *)
(* HTTP fetch and the execution of a generated script are the environment: *)
(* each returns, and what it returns is chosen nondeterministically.  An   *)
(* executed script either returns normally, leaving some value in its      *)
(* result slot, or raises an Exception; interruptions that are not         *)
(* Exceptions (SystemExit, KeyboardInterrupt) end the process and are not  *)
(* part of the model.                                                      *)
(*                                                                         *)
(* Texts are modelled by what the code does with them: an error text is    *)
(* the sequence of its parts, an oracle answer is the kind of text it is.  *)
(* Every step result carries the number of the global attempt that         *)
(* produced it (field att), which the code does not store; it is history   *)
(* used only by properties.                                                *)
(***************************************************************************)
EXTENDS Integers, Sequences, FiniteSets, TLC

\* ------------------------------------------------------------- bounds
\* handle_task is called with max_global_retries in 0..MaxGlobalRetries
MaxGlobalRetries == 2
\* a directly called adapter gets max_retries in 0..MaxRetriesArg
MaxRetriesArg == 2
\* the planner oracle returns plans of 1..MaxPlanLen steps
MaxPlanLen == 2

\* --------------------------------------------------- program constants
\* get_plan: for attempt in range(3)
PlanAttempts == 3
\* default max_retries of retrieve_data_as_df, handle_file_task, analyze_data
DefaultMaxRetries == 3
\* default max_retries of extract_relevant_data
FetchMaxRetries == 10

\* ------------------------------------------------------------- values
Tools == {"duckdb_runner.retrieve_data_as_df", "fetch.extract_relevant_data",
          "file_handler.handle_file_task", "analyze.analyze_data"}
ToolNames == Tools \cup {"other.tool"}
StepNames == {"a", "b"}
\* texts of the exceptions a generated script can raise
ScriptErrors == {"e1", "e2"}

\* kinds of value a script can leave in its result slot
ResultKinds == {"None", "DataFrame", "EmptyDataFrame", "str", "list"}
\* a slip: a table without rows is not taken for a table
IsFilledDataFrame(kind) == kind = "DataFrame"
\* isinstance(value, pd.DataFrame)
IsDataFrame(kind) == kind \in {"DataFrame", "EmptyDataFrame"}

NoneVal == [kind |-> "None", att |-> 0]
Val(kind, att) == [kind |-> kind, att |-> att]

NoException == [type |-> "none", text |-> << >>]
Exc(type, text) == [type |-> type, text |-> text]
\* str(e) of an exception
Str(e) == e.text

\* results["error"]: None, or a text
NoError == [none |-> TRUE, text |-> << >>]
ErrorText(text) == [none |-> FALSE, text |-> text]

\* ------------------------------------------- insertion-ordered dict
Keys(ctx) == [k \in 1..Len(ctx) |-> ctx[k].name]
KeySet(ctx) == {ctx[k].name : k \in 1..Len(ctx)}
\* d[key] = val of a Python dict: a new key is appended, an existing key
\* keeps its position and gets the new value
Put(ctx, key, val) ==
    IF key \in KeySet(ctx)
    THEN [k \in 1..Len(ctx) |->
            IF ctx[k].name = key THEN [name |-> key, val |-> val] ELSE ctx[k]]
    ELSE Append(ctx, [name |-> key, val |-> val])

\* --------------------------------------------------------- the oracle
\* What the provider does with one request: it answers with a text, or the
\* call fails (network, provider, configuration) with an error message;
\* content is the text or the message
ProviderCall(failed, content) == [failed |-> failed, content |-> content]

\* llm(prompt) / llm_vision(prompt, image_path): the except clause turns
\* every failure into a text returned as a normal value, the message behind
\* the prefix "LLM error: " / "LLM Vision error: " (sentinel = the text
\* starts with that prefix)
\* a slip: a failure of the provider leaves llm as an exception
LlmPropagates(o) ==
    IF o.failed
    THEN [raised |-> TRUE, sentinel |-> FALSE, content |-> o.content]
    ELSE [raised |-> FALSE, sentinel |-> FALSE, content |-> o.content]
Llm(o) ==
    IF o.failed
    THEN [raised |-> FALSE, sentinel |-> TRUE, content |-> o.content]
    ELSE [raised |-> FALSE, sentinel |-> FALSE, content |-> o.content]
LlmVision(o) ==
    IF o.failed
    THEN [raised |-> FALSE, sentinel |-> TRUE, content |-> o.content]
    ELSE [raised |-> FALSE, sentinel |-> FALSE, content |-> o.content]
\* what a call handed back to its caller and whether the provider had
\* failed, as recorded in llm_ret
Handed(failed, resp) ==
    [failed |-> failed, raised |-> resp.raised, sentinel |-> resp.sentinel]
NoLlm == [failed |-> FALSE, raised |-> FALSE, sentinel |-> FALSE]

\* extract_python_code / _extract_python_code: the script text is the
\* answer (with or without its markdown fence); a sentinel stays a sentinel
ExtractPythonCode(resp) == [sentinel |-> resp.sentinel]
NoScript == [sentinel |-> FALSE]

\* exec(script, scope): the outcomes of running a script.  The sentinel text
\* is not Python, so exec raises SyntaxError; any other script may raise
\* any Exception or return with any value in its result slot
\* raw says where the result holds a byte buffer or an in-memory image:
\* nowhere ("none"), it is one itself ("self"), as a value of the dict
\* ("value"), as an element of the list ("element"), or deeper ("nested")
Raised(type, text) ==
    [raised |-> TRUE, exc |-> Exc(type, <<text>>), result |-> "None", raw |-> "none"]
Holding(kind, raw) ==
    [raised |-> FALSE, exc |-> NoException, result |-> kind, raw |-> raw]
Returned(kind) == Holding(kind, "none")
\* results with binary payloads and mappings
BinaryResults ==
    {Holding("bytes", "self"), Holding("Image", "self"),
     Holding("dict", "none"), Holding("dict", "value"), Holding("dict", "nested"),
     Holding("list", "element"), Holding("list", "nested")}


\* ------------------------------------------------------------ the plan
RequiredKeys == {"tool_name", "tool_input", "step_name"}
\* one element of the JSON list the planner answers with; tool_input is
\* read only when the step is dispatched and is drawn there (StepInputs)
PlanStep(t, n) ==
    [is_dict |-> TRUE, keys |-> RequiredKeys, tool_name |-> t, step_name |-> n]
PlanSteps == {PlanStep(t, n) : t \in ToolNames, n \in StepNames}
\* step names are opaque keys, so the first step is always named "a"
Plans == {p \in UNION {[1..n -> PlanSteps] : n \in 1..MaxPlanLen} :
            p[1].step_name = "a"}
NoPlan == << >>

\* what the planner's answer holds once the JSON list has been searched for
\* and parsed (a matched text starts with [ and ends with ], so a parsed
\* value is a list)
NoJsonList == [json |-> "no match", items |-> << >>]
BadJson == [json |-> "invalid", items |-> << >>]
JsonList(items) == [json |-> "value", items |-> items]
MalformedAnswers ==
    {NoJsonList, BadJson, JsonList(<< >>),
     JsonList(<<[is_dict |-> FALSE, keys |-> {}, tool_name |-> "", step_name |-> ""]>>),
     JsonList(<<[is_dict |-> TRUE, keys |-> {"tool_name", "tool_input"},
                 tool_name |-> "analyze.analyze_data", step_name |-> ""]>>)}
PlannerAnswers == MalformedAnswers \cup {JsonList(p) : p \in Plans}

\* what an answer of the planner holds: a non-empty list of dictionaries that
\* all have the three keys ("valid"), or anything else ("invalid")
PlanHeld(answer) ==
    IF /\ answer.json = "value"
       /\ answer.items # << >>
       /\ \A k \in DOMAIN answer.items :
             /\ answer.items[k].is_dict
             /\ {"tool_name", "tool_input", "step_name"} \subseteq answer.items[k].keys
    THEN "valid" ELSE "invalid"

\* the answer is a non-empty list of dictionaries that have tool_name and
\* tool_input, and one of them has no step_name
HasUnnamedStep(answer) ==
    /\ answer.json = "value"
    /\ Len(answer.items) > 0
    /\ \A k \in 1..Len(answer.items) :
          /\ answer.items[k].is_dict
          /\ {"tool_name", "tool_input"} \subseteq answer.items[k].keys
    /\ \E k \in 1..Len(answer.items) : "step_name" \notin answer.items[k].keys

\* agent.py 246: step.get("step_name", f"step_{i+1}"), for the step at the
\* 1-based position k: the value of the key when the step has it
PositionalName(k) ==
    CASE k = 1 -> "step_1"
      [] k = 2 -> "step_2"
      [] k = 3 -> "step_3"
      [] OTHER -> "step_n"
StepName(step, k) ==
    IF "step_name" \in step.keys THEN step.step_name ELSE PositionalName(k)

\* a slip: the steps of the list are not looked at
AnyJsonList(answer) ==
    /\ answer.json = "value"
    /\ Len(answer.items) > 0

\* get_plan's check of one answer: a JSON list was found and parsed, it is
\* not empty, every step is a dictionary with the three required keys
ValidPlan(answer) ==
    /\ answer.json = "value"
    /\ Len(answer.items) > 0
    /\ \A k \in 1..Len(answer.items) :
          /\ answer.items[k].is_dict
          /\ RequiredKeys \subseteq answer.items[k].keys

\* ------------------------------------------------------ uploaded files
\* attachments in upload order (the keys of file_temp_paths); every temp
\* file is written with delete=False and exists while the run lasts
UploadLists == {<< >>, <<"data.csv">>, <<"data.csv", "img.png">>}
LogicalNames == {"data.csv", "DATA.CSV", "dat.csv", "img.png", "other.xlsx"}
Lower(n) == IF n = "DATA.CSV" THEN "data.csv" ELSE n
\* os.path.splitext(n)[0].lower() and os.path.splitext(n)[1].lower()
StemLower(n) ==
    CASE n \in {"data.csv", "DATA.CSV"} -> "data"
      [] n \in {"dat.csv", "dat.png"} -> "dat"
      [] n = "img.png" -> "img"
      [] n \in {"other.xlsx", "other.csv"} -> "other"
      [] OTHER -> n
ExtLower(n) ==
    CASE n \in {"data.csv", "DATA.CSV", "dat.csv", "other.csv"} -> ".csv"
      [] n \in {"img.png", "dat.png"} -> ".png"
      [] n = "other.xlsx" -> ".xlsx"
      [] OTHER -> ""
\* a in b, for the stems above
SubStr(a, b) == a = b \/ (a = "dat" /\ b = "data")
\* a slip: the loop goes on after a match, so the last match stays
LastHit(list, hits) ==
    IF hits = {} THEN ""
    ELSE list[CHOOSE k \in hits : \A j \in hits : k >= j]
\* for k in list: if <test>: ...; break -- the first element whose index is
\* among the hits, or "" (no path)
FirstHit(list, hits) ==
    IF hits = {} THEN ""
    ELSE list[CHOOSE k \in hits : \A j \in hits : k <= j]
Elems(list) == {list[k] : k \in 1..Len(list)}

\* a slip: a single upload is used only when a strategy found it
NoFallback(found, uploads) == found
\* agent.py 314-317: the only uploaded file is used when nothing was found
SingleFileFallback(found, uploads) ==
    IF found = "" /\ Len(uploads) = 1 THEN uploads[1] ELSE found

\* agent.py 286-321: logical file name -> uploaded file, "" when none
ResolveFile(logical, uploads) ==
    LET exact == IF logical \in Elems(uploads) THEN logical ELSE ""
        CaseTest(k) == Lower(k) = Lower(logical)
        s1 == IF exact = ""
              THEN FirstHit(uploads, {k \in 1..Len(uploads) : CaseTest(uploads[k])})
              ELSE exact
        PartTest(k) == \/ SubStr(StemLower(logical), StemLower(k))
                       \/ SubStr(StemLower(k), StemLower(logical))
        s2 == IF s1 = ""
              THEN FirstHit(uploads, {k \in 1..Len(uploads) : PartTest(uploads[k])})
              ELSE s1
        matching == {k \in Elems(uploads) : ExtLower(k) = ExtLower(logical)}
        s3 == IF s2 = "" /\ ExtLower(logical) # "" /\ Cardinality(matching) = 1
              THEN CHOOSE k \in matching : TRUE ELSE s2
        s4 == SingleFileFallback(s3, uploads)
    IN  s4

\* _detect_file_type, for the temp path of an uploaded file
DetectFileType(n) ==
    CASE ExtLower(n) = ".csv" -> "csv"
      [] ExtLower(n) \in {".xls", ".xlsx"} -> "excel"
      [] ExtLower(n) = ".png" -> "image"
      [] ExtLower(n) = ".pdf" -> "pdf"
      [] OTHER -> "unknown"
FileTypes == {"csv", "excel", "image", "pdf", "unknown"}

\* what a task description asks for, by handle_file_task's keyword test
DescKinds == {"table", "text", "plain"}

\* tool_input of a plan step: its JSON type and the fields the code reads
ToolInput(shape, url, desc, path) ==
    [shape |-> shape, url |-> url, desc |-> desc, file_path |-> path]
StepInputs(tool_name) ==
    CASE tool_name = "duckdb_runner.retrieve_data_as_df" ->
           {ToolInput(s, FALSE, "plain", "None") : s \in {"str", "dict"}}
      [] tool_name = "fetch.extract_relevant_data" ->
           {ToolInput("str", FALSE, "plain", "None")}
             \cup {ToolInput("dict", u, "plain", "None") : u \in BOOLEAN}
      [] tool_name = "file_handler.handle_file_task" ->
           {ToolInput("other", FALSE, "plain", "None")}
             \cup {ToolInput("str", FALSE, d, "None") : d \in DescKinds \cup {"missing"}}
             \cup {ToolInput("dict", FALSE, d, p) :
                     d \in DescKinds \cup {"missing"}, p \in LogicalNames \cup {"None"}}
      [] OTHER -> {ToolInput("str", FALSE, "plain", "None")}


\* what a request for a new script carries of the round that failed: the
\* number of the script it shows (-1: no script) and the form of the error
\* text ("none": no error text)
NoRequest == [script |-> -1, error |-> "none"]
\* duckdb_runner.py 136, file_handler.py 305, analyze.py 178: the corrector is
\* given the script of the round that failed (current_script, code,
\* analysis_code) and traceback.format_exc()
CorrectionRequest(k) == [script |-> k, error |-> "traceback"]
\* fetch.py 165 and 66-70: llm_generate_scraping_code is given the soup, the
\* task and error_log, of which it keeps the last 3 lines cut to 300
\* characters; error_log is the summary "type: message" of the last failure
RegenerationRequest(log) ==
    [script |-> -1, error |-> IF log = << >> THEN "none" ELSE "summary cut"]

\* no scope has been built; dropped is history: what result was bound to in
\* the dictionary of the round before
NoScope == [result |-> NoneVal, names |-> {}, dropped |-> NoneVal]

\* --------------------------------------------------------------- state
VARIABLES
    entry,               \* the function called at the top level
    full_task_text,      \* handle_task: task_text.strip()
    attachments,         \* handle_task: uploaded file names, in order
    max_global_retries,  \* handle_task: its parameter
    pc,                  \* the place in the code the run is at
    attempt,             \* handle_task: for attempt in range(max_global_retries)
    results,             \* handle_task: the report dict (unbound before line 172)
    plan_attempt,        \* get_plan: for attempt in range(3)
    planner_arg,         \* get_plan: the task_text it was last called with
    plan_held,           \* history: what the planner's last answer of this
                         \* attempt held: "none", "valid" or "invalid"
    plan,                \* handle_task: the plan get_plan returned
    plan_unnamed,        \* history: get_plan's loop has just turned down an
                         \* answer for a step without the key step_name
    step_input,          \* history: the form of the step last dispatched in
                         \* this attempt: "none", "well-formed" or "malformed"
    temp_files,          \* the uploads of which handle_task's temp copies
                         \* (one or more each) exist on disk
    data_context,        \* handle_task: step name -> step result, insertion-ordered
    i,                   \* handle_task: index of the step being run, from 1
    stored,              \* history: steps whose result was stored, this attempt
    returned,            \* handle_task: "running", "report" or "raised"
    logical_file_path,   \* handle_task: the file name of the file step being
                         \* dispatched, "" once its adapter has started
    tool,                \* the adapter that is running, or "none"
    tool_arg,            \* the adapter's arguments that the code branches on
    max_retries,         \* the adapter's max_retries
    t_attempt,           \* the adapter's for attempt in range(max_retries)
    script,              \* the adapter's current script
    error_log,           \* extract_relevant_data: error_log
    asked,               \* history: what the adapter's last request for a new
                         \* script carried of the failed round
    tables,              \* extract_relevant_data: len(tables), -1 before read_html
    best_index,          \* history: what the selection answer held: "none", "valid", "invalid"
    execs,               \* history: scripts executed by this adapter call
    oracle_calls,        \* history: oracle calls made by this adapter call
    tool_end,            \* how the last adapter call ended
    tool_value,          \* what the last adapter call returned
    tool_raw,            \* history: where that value holds a raw payload
    tool_reads,          \* history: where the script behind it read its data
    llm_ret,             \* what the last llm / llm_vision call handed back
    requests,            \* /api: request -> the locals of its api_analyze call
                         \* and of the handle_task call it makes
    actor,               \* history: the request that took the last step
    scope,               \* an adapter's local_vars: what result is bound to
                         \* and the other top-level names scripts bound
    tally                \* the loop counters of one handle_task call and,
                         \* as history, what the call has done in all

\* what no step of a single call changes
inputs == <<entry, full_task_text, attachments, max_global_retries, requests, actor,
           scope, tally>>
run == <<pc, attempt, results, data_context, i, stored, returned>>
hist == <<tool_end, tool_value, tool_raw, tool_reads>>
orch == <<run, hist>>
\* what planning and its preparation leave behind
planv == <<plan_attempt, planner_arg, plan_held, plan, plan_unnamed, step_input, temp_files>>
\* what extract_relevant_data found on the page
page == <<tables, best_index>>
toolv == <<logical_file_path, tool, tool_arg, max_retries, t_attempt, script, error_log, asked, execs, oracle_calls, page>>
\* the adapter's locals that change while it runs
frame == <<t_attempt, script, error_log, asked>>
vars == <<inputs, orch, planv, toolv, llm_ret>>

Adapters == {"retrieve_data_as_df", "extract_relevant_data",
             "handle_file_task", "analyze_data"}

UnboundResults ==
    [bound |-> FALSE, dataframe_preview |-> << >>,
     final_answers |-> NoneVal, error |-> NoError]
\* a slip: the report is made once and kept over the attempts
KeptResults == [results EXCEPT !.bound = TRUE]
\* agent.py 172-178
FreshResults ==
    [bound |-> TRUE, dataframe_preview |-> << >>,
     final_answers |-> NoneVal, error |-> NoError]
\* a slip: the context of the previous attempt is kept
KeptContext == data_context
\* agent.py 228
FreshContext == << >>

NoToolArg == [file_type |-> "unknown", desc |-> "plain", path |-> "", context |-> FALSE]
\* the arguments of analyze_data: the context is the first of them
ContextArg == [NoToolArg EXCEPT !.context = TRUE]
ToolRunning == [kind |-> "running", exc |-> NoException]
ToolIdle == [kind |-> "none", exc |-> NoException]
ToolReturned == [kind |-> "returned", exc |-> NoException]
ToolRaised(e) == [kind |-> "raised", exc |-> e]

\* handle_task tells a step result only by DataFrame or not (lines 339-342),
\* so under handle_task the results of ResultKinds stand for all; a directly
\* called adapter also gets the results with binary payloads and mappings
ExecOutcomes(code) ==
    IF code.sentinel
    THEN {Raised("SyntaxError", "invalid syntax")}
    ELSE {Raised("Exception", e) : e \in ScriptErrors}
           \cup {Returned(k) : k \in ResultKinds}
           \cup (IF entry = "handle_task" THEN {} ELSE BinaryResults)

\* contexts handed to a directly called analyze_data
GivenContexts ==
    {<< >>, <<[name |-> "a", val |-> Val("DataFrame", 0)]>>}

InitHandleTask ==
    /\ entry = "handle_task"
    /\ attachments \in UploadLists
    /\ max_global_retries \in 0..MaxGlobalRetries
    /\ pc = "handle_task"
    /\ tool = "none"
    /\ tool_arg = NoToolArg
    /\ max_retries = 0
    /\ data_context = << >>
    /\ tool_end = ToolIdle

InitAdapter ==
    /\ entry \in Adapters
    /\ attachments = << >>
    /\ max_global_retries = 0
    /\ pc = entry
    /\ tool = entry
    /\ tool_arg \in IF entry = "handle_file_task"
                    THEN {[file_type |-> DetectFileType(f), desc |-> d, path |-> f,
                           context |-> FALSE] :
                             f \in {"data.csv", "img.png"}, d \in DescKinds}
                    ELSE IF entry = "analyze_data" THEN {ContextArg}
                    ELSE {NoToolArg}
    /\ max_retries \in 0..MaxRetriesArg
    /\ data_context \in IF entry = "analyze_data" THEN GivenContexts ELSE {<< >>}
    /\ tool_end = ToolRunning

\* the locals of a call before its first statement
InitLocals ==
    /\ full_task_text = "task"
    /\ attempt = 0
    /\ results = UnboundResults
    /\ plan_attempt = 0
    /\ planner_arg = ""
    /\ plan_held = "none"
    /\ plan_unnamed = FALSE
    /\ step_input = "none"
    /\ temp_files = {}
    /\ plan = NoPlan
    /\ i = 0
    /\ stored = << >>
    /\ returned = "running"
    /\ t_attempt = 0
    /\ script = NoScript
    /\ error_log = << >>
    /\ asked = NoRequest
    /\ tables = -1
    /\ best_index = "none"
    /\ execs = 0
    /\ oracle_calls = 0
    /\ tool_value = NoneVal
    /\ tool_raw = "none"
    /\ logical_file_path = ""
    /\ tool_reads = "none"
    /\ llm_ret = NoLlm
    /\ scope = NoScope

Init ==
    /\ InitLocals
    /\ (InitHandleTask \/ InitAdapter)
    /\ requests = << >>
    /\ actor = 0
    /\ tally = << >>

\* ------------------------------------------------ handle_task: the loop
\* range(n): the loop body runs for attempt while attempt < n
\* a slip: one round too many
InRangeInclusive(a, n) == a <= n
InRange(a, n) == a < n
\* a slip: no failure is taken for the last one
NeverLast(a, n) == FALSE
\* attempt + 1 == max_retries / max_global_retries: the last one allowed
IsLastAttempt(a, n) == a + 1 = n
NextAttempt(a) == a + 1
\* a slip: the step after the next one
SkipStep(k) == k + 2
NextStep(k) == k + 1

\* no adapter is running and none has run since the attempt began
NoTool ==
    /\ tool' = "none"
    /\ tool_arg' = NoToolArg
    /\ logical_file_path' = ""
    /\ max_retries' = 0
    /\ t_attempt' = 0
    /\ script' = NoScript
    /\ error_log' = << >>
    /\ asked' = NoRequest
    /\ tables' = -1
    /\ best_index' = "none"
    /\ execs' = 0
    /\ oracle_calls' = 0
    /\ tool_end' = ToolIdle
    /\ tool_value' = NoneVal
    /\ tool_raw' = "none"
    /\ tool_reads' = "none"

\* a slip: the last failure is re-raised to the caller
Propagate(e) ==
    /\ IF IsLastAttempt(attempt, max_global_retries)
       THEN /\ returned' = "raised"
            /\ pc' = "done"
            /\ attempt' = attempt
            /\ results' = results
       ELSE /\ returned' = returned
            /\ pc' = "handle_task"
            /\ attempt' = NextAttempt(attempt)
            /\ results' = [results EXCEPT !.error = ErrorText(Str(e))]
    /\ UNCHANGED <<data_context, i, stored>>
\* a slip: after a failure the plan is resumed at the step that failed
CatchResume(e) ==
    /\ results' = [results EXCEPT !.error = ErrorText(Str(e))]
    /\ IF IsLastAttempt(attempt, max_global_retries)
       THEN /\ returned' = "report"
            /\ pc' = "done"
            /\ attempt' = attempt
       ELSE /\ returned' = returned
            /\ pc' = IF plan = NoPlan THEN "handle_task" ELSE "step"
            /\ attempt' = NextAttempt(attempt)
    /\ UNCHANGED <<data_context, i, stored>>
\* agent.py 347-353: handle_task's except clause, for exception e
Catch(e) ==
    /\ results' = [results EXCEPT !.error = ErrorText(Str(e))]
    /\ IF IsLastAttempt(attempt, max_global_retries)
       THEN /\ returned' = "report"
            /\ pc' = "done"
            /\ attempt' = attempt
       ELSE /\ returned' = returned
            /\ pc' = "handle_task"
            /\ attempt' = NextAttempt(attempt)
    /\ UNCHANGED <<data_context, i, stored>>

\* an exception leaves the code that handle_task's try block runs
Raise(e) ==
    IF entry = "handle_task"
    THEN Catch(e)
    ELSE /\ pc' = "done"
         /\ UNCHANGED <<attempt, results, data_context, i, stored, returned>>

\* agent.py 337-345: the adapter returned a value of this kind; it is
\* stored under the step's name, reported, and the loop goes on or ends
StoreStep(kind) ==
    LET step_name == StepName(plan[i], i)
        step_result == Val(kind, attempt)
    IN  /\ data_context' = Put(data_context, step_name, step_result)
        /\ stored' = Append(stored, i)
        /\ results' =
             IF IsDataFrame(kind)
             THEN [results EXCEPT !.dataframe_preview =
                      Append(@, [name |-> step_name, att |-> attempt])]
             ELSE [results EXCEPT !.final_answers = step_result]
        /\ IF NextStep(i) > Len(plan)
           THEN /\ returned' = "report"
                /\ pc' = "done"
                /\ i' = i
           ELSE /\ returned' = returned
                /\ pc' = "step"
                /\ i' = NextStep(i)
        /\ UNCHANGED attempt

\* the adapter hands a value of this kind to its caller
Return(kind) ==
    /\ tool_value' = Val(kind, attempt)
    /\ IF entry = "handle_task"
       THEN StoreStep(kind)
       ELSE /\ pc' = "done"
            /\ UNCHANGED <<attempt, results, data_context, i, stored, returned>>

\* agent.py 187-197 and 231-237: every attachment is written to a new
\* NamedTemporaryFile(delete=False), before the plan is asked for and again
\* once it is there; no code of the repository deletes such a file
TempCopies(uploads) == Elems(uploads)

\* agent.py 169-226: the loop head of handle_task, up to the call of get_plan
AttemptStart ==
    /\ pc = "handle_task"
    /\ InRange(attempt, max_global_retries)
    /\ results' = FreshResults
    /\ plan_attempt' = 0
    /\ pc' = "get_plan"
    /\ NoTool
    /\ llm_ret' = NoLlm
    \* plan and i are assigned (lines 226, 243) before they are read again
    /\ plan' = NoPlan
    /\ plan_held' = "none"
    /\ plan_unnamed' = FALSE
    /\ step_input' = "none"
    /\ temp_files' = temp_files \cup TempCopies(attachments)
    /\ i' = 0
    /\ stored' = << >>
    /\ UNCHANGED <<inputs, attempt, data_context, returned, planner_arg>>

\* agent.py 355: the loop ran out (only a budget of 0 gets here); the
\* return statement reads results, which was never assigned
LoopExhausted ==
    /\ pc = "handle_task"
    /\ ~InRange(attempt, max_global_retries)
    /\ pc' = "done"
    /\ returned' = IF results.bound THEN "report" ELSE "raised"
    /\ UNCHANGED <<inputs, attempt, results, data_context, i, stored, hist,
                   planv, toolv, llm_ret>>

\* agent.py 226 and 113-158: one round of get_plan's loop, called with
\* full_task_text; a valid answer is returned as the plan and handle_task
\* goes on to line 228-243; the third invalid answer raises RuntimeError
PlanError == Exc("RuntimeError",
                 <<"The AI failed to generate a valid execution plan after 3 attempts.">>)
GetPlan ==
    /\ pc = "get_plan"
    /\ \E failed \in BOOLEAN, text \in PlannerAnswers :
         LET resp == Llm(ProviderCall(failed, text))
             answer == IF resp.sentinel THEN NoJsonList ELSE resp.content
         IN  /\ failed => text = NoJsonList
             /\ llm_ret' = Handed(failed, resp)
             /\ planner_arg' = full_task_text
             /\ plan_held' = PlanHeld(answer)
             /\ plan_unnamed' = (/\ ~ValidPlan(answer)
                                 /\ ~IsLastAttempt(plan_attempt, PlanAttempts)
                                 /\ HasUnnamedStep(answer))
             /\ temp_files' = IF ValidPlan(answer)
                              THEN temp_files \cup TempCopies(attachments)
                              ELSE temp_files
             /\ IF ValidPlan(answer)
                THEN /\ plan' = answer.items
                     /\ data_context' = FreshContext
                     /\ stored' = << >>
                     /\ i' = 1
                     /\ pc' = "step"
                     /\ plan_attempt' = 0
                     /\ UNCHANGED <<attempt, results, returned>>
                ELSE IF IsLastAttempt(plan_attempt, PlanAttempts)
                THEN /\ Raise(PlanError)
                     /\ plan_attempt' = 0
                     /\ UNCHANGED plan
                ELSE /\ plan_attempt' = NextAttempt(plan_attempt)
                     /\ UNCHANGED <<plan, run>>
    /\ UNCHANGED <<inputs, toolv, hist, step_input>>

\* --------------------------------------------- handle_task: dispatching
\* the adapter ends, by an exception or a value: its locals are gone
EndFrame ==
    /\ t_attempt' = 0
    /\ script' = NoScript
    /\ error_log' = << >>
    /\ asked' = NoRequest
AdapterRaise(e) ==
    /\ Raise(e)
    /\ tool_end' = ToolRaised(e)
    /\ tool_value' = NoneVal
    /\ tool_raw' = "none"
    /\ tool_reads' = "none"
    /\ EndFrame
\* the adapter returns a value of this kind, holding raw payloads there,
\* made by a script that read its data there
AdapterReturnFrom(kind, raw, reads) ==
    /\ Return(kind)
    /\ tool_end' = ToolReturned
    /\ tool_raw' = raw
    /\ tool_reads' = reads
    /\ EndFrame
AdapterReturnValue(kind, raw) == AdapterReturnFrom(kind, raw, "none")
AdapterReturn(kind) == AdapterReturnValue(kind, "none")
\* the adapter goes on, at the same place or at another one
Continue == UNCHANGED <<run, hist>>
Goto(place) ==
    /\ pc' = place
    /\ UNCHANGED <<attempt, results, data_context, i, stored, returned, hist>>

\* an adapter is entered
CallFor(adapter, arg, retries, logical) ==
    /\ pc' = adapter
    /\ logical_file_path' = logical
    /\ tool' = adapter
    /\ tool_arg' = arg
    /\ max_retries' = retries
    /\ t_attempt' = 0
    /\ script' = NoScript
    /\ error_log' = << >>
    /\ asked' = NoRequest
    /\ tables' = -1
    /\ best_index' = "none"
    /\ execs' = 0
    /\ oracle_calls' = 0
    /\ tool_end' = ToolRunning
    /\ tool_value' = NoneVal
    /\ tool_raw' = "none"
    /\ tool_reads' = "none"
    /\ UNCHANGED <<attempt, results, data_context, i, stored, returned>>

Call(adapter, arg, retries) == CallFor(adapter, arg, retries, "")

\* the step raises before any adapter is entered
NoCall(e) == Raise(e) /\ NoTool

\* agent.py 330-332 against analyze.py 66: the call passes data_context and
\* full_task_text by position and tool_input by keyword
AnalyzeParameters == {"data_context", "task", "max_retries"}
AnalyzeCallKeywords == {"tool_input"}
AnalyzeCallBinds == AnalyzeCallKeywords \subseteq AnalyzeParameters

\* a slip: the input of a duckdb step is passed on as it is
DispatchDuckdbUnchecked(tool_input) ==
    Call("retrieve_data_as_df", NoToolArg, DefaultMaxRetries)
\* agent.py 252-255
DispatchDuckdb(tool_input) ==
    IF tool_input.shape # "str"
    THEN NoCall(Exc("TypeError", <<"Expected a string for duckdb_runner input">>))
    ELSE Call("retrieve_data_as_df", NoToolArg, DefaultMaxRetries)

\* agent.py 257-264
DispatchFetch(tool_input) ==
    IF tool_input.shape # "dict"
    THEN NoCall(Exc("TypeError", <<"Expected a dictionary for fetch tool input">>))
    ELSE IF ~tool_input.url
    THEN NoCall(Exc("ValueError", <<"Plan for 'fetch' tool is missing a URL.">>))
    ELSE Call("extract_relevant_data", NoToolArg, FetchMaxRetries)

\* a slip: the missing file goes unnoticed
NeverUnresolved(actual_file) == FALSE
\* agent.py 319: if not actual_file_path or not os.path.exists(actual_file_path)
Unresolved(actual_file) == actual_file = ""

\* agent.py 266-328
DispatchFile(tool_input) ==
    LET logical ==
            IF tool_input.shape = "str"
            THEN (IF attachments # << >> THEN attachments[1] ELSE "uploaded_file")
            ELSE tool_input.file_path
        actual_file == ResolveFile(logical, attachments)
    IN  IF tool_input.shape \notin {"str", "dict"}
        THEN NoCall(Exc("TypeError",
                        <<"Expected a dictionary or string for file_handler tool input">>))
        ELSE IF tool_input.desc = "missing"
        THEN NoCall(Exc("ValueError",
                        <<"Plan for 'file_handler.handle_file_task' tool is missing task_description.">>))
        ELSE IF logical = "None"
        THEN (IF attachments # << >>
              THEN NoCall(Exc("AttributeError",
                              <<"'NoneType' object has no attribute 'lower'">>))
              ELSE NoCall(Exc("TypeError",
                              <<"expected str, bytes or os.PathLike object, not NoneType">>)))
        ELSE IF Unresolved(actual_file)
        THEN NoCall(Exc("FileNotFoundError",
                        <<"Could not resolve file", logical>>))
        ELSE CallFor("handle_file_task",
                     [file_type |-> DetectFileType(actual_file), desc |-> tool_input.desc,
                      path |-> actual_file, context |-> FALSE],
                     DefaultMaxRetries, logical)

\* agent.py 330-332
DispatchAnalyze ==
    IF AnalyzeCallBinds
    THEN Call("analyze_data", ContextArg, DefaultMaxRetries)
    ELSE NoCall(Exc("TypeError",
                    <<"analyze_data() got an unexpected keyword argument 'tool_input'">>))

\* a step is malformed when its tool is none of the four, when it is a
\* duckdb step whose input is no string, a fetch step whose input is no
\* dictionary or has no url, or a file step that has no task description
StepForm(tool_name, tool_input) ==
    IF \/ tool_name \notin Tools
       \/ /\ tool_name = "duckdb_runner.retrieve_data_as_df"
          /\ tool_input.shape # "str"
       \/ /\ tool_name = "fetch.extract_relevant_data"
          /\ (tool_input.shape # "dict" \/ ~tool_input.url)
       \/ /\ tool_name = "file_handler.handle_file_task"
          /\ (tool_input.shape \notin {"str", "dict"} \/ tool_input.desc = "missing")
    THEN "malformed" ELSE "well-formed"

\* agent.py 243-335: step i of the plan is read and its tool is called
Dispatch ==
    /\ pc = "step"
    /\ LET tool_name == plan[i].tool_name
       IN  \E tool_input \in StepInputs(tool_name) :
           /\ step_input' = StepForm(tool_name, tool_input)
           /\ CASE tool_name = "duckdb_runner.retrieve_data_as_df" ->
                    DispatchDuckdb(tool_input)
               [] tool_name = "fetch.extract_relevant_data" ->
                    DispatchFetch(tool_input)
               [] tool_name = "file_handler.handle_file_task" ->
                    DispatchFile(tool_input)
               [] tool_name = "analyze.analyze_data" ->
                    DispatchAnalyze
               [] OTHER ->
                    NoCall(Exc("ValueError", <<"Unknown tool in plan:", tool_name>>))
    /\ UNCHANGED <<inputs, plan_attempt, planner_arg, plan_held, plan, plan_unnamed,
                   temp_files, llm_ret>>

\* ------------------------------------------- retrieve_data_as_df
\* a slip: any assigned result is taken
DuckdbAcceptsAssigned(kind) == kind # "None"
\* duckdb_runner.py 122: the result must be a DataFrame
DuckdbAccepts(kind) == IsDataFrame(kind)
DuckdbRejected(kind) ==
    Exc("ValueError", <<"Script did not return a pandas DataFrame. Got type:", kind>>)
\* duckdb_runner.py 134
DuckdbFailed(e) ==
    Exc("RuntimeError",
        <<"Script failed after", ToString(max_retries), "attempts. Last error:">> \o Str(e))
\* duckdb_runner.py 138
DuckdbExhausted ==
    Exc("RuntimeError", <<"DuckDB tool failed to execute after all retries.">>)

\* duckdb_runner.py 105-108: the initial script is generated, the loop entered
RetrieveDataAsDf ==
    /\ pc = "retrieve_data_as_df"
    /\ oracle_calls' = oracle_calls + 1
    /\ \E failed \in BOOLEAN :
         LET resp == Llm(ProviderCall(failed, "script"))
         IN  /\ llm_ret' = Handed(failed, resp)
             /\ IF InRange(0, max_retries)
                THEN /\ script' = ExtractPythonCode(resp)
                     /\ Goto("duckdb_exec")
                     /\ UNCHANGED <<t_attempt, error_log, asked>>
                ELSE AdapterRaise(DuckdbExhausted)
    /\ UNCHANGED <<inputs, planv, logical_file_path, tool, tool_arg, max_retries, execs, page>>

\* duckdb_runner.py 108-138: one round of the loop: the script is executed
\* and its result checked; a failure is the last one, or is corrected
DuckdbExec ==
    /\ pc = "duckdb_exec"
    /\ execs' = execs + 1
    /\ \E out \in ExecOutcomes(script), failed \in BOOLEAN :
         LET e == IF out.raised THEN out.exc ELSE DuckdbRejected(out.result)
             resp == Llm(ProviderCall(failed, "script"))
         IN  IF ~out.raised /\ DuckdbAccepts(out.result)
             THEN /\ ~failed
                  /\ AdapterReturn(out.result)
                  /\ UNCHANGED <<oracle_calls, llm_ret>>
             ELSE IF IsLastAttempt(t_attempt, max_retries)
             THEN /\ ~failed
                  /\ AdapterRaise(DuckdbFailed(e))
                  /\ UNCHANGED <<oracle_calls, llm_ret>>
             ELSE /\ llm_ret' = Handed(failed, resp)
                  /\ oracle_calls' = oracle_calls + 1
                  /\ IF InRange(NextAttempt(t_attempt), max_retries)
                     THEN /\ script' = ExtractPythonCode(resp)
                          /\ t_attempt' = NextAttempt(t_attempt)
                          /\ Continue
                          /\ asked' = CorrectionRequest(t_attempt)
                          /\ UNCHANGED error_log
                     ELSE AdapterRaise(DuckdbExhausted)
    /\ UNCHANGED <<inputs, planv, logical_file_path, tool, tool_arg, max_retries, page>>

\* ------------------------------------------- extract_relevant_data
\* fetch.py 173-188: the result must be a DataFrame that is not empty
FetchAccepts(kind) == kind = "DataFrame"
FetchRejected(kind) ==
    IF kind = "EmptyDataFrame"
    THEN Exc("ValueError", <<"Generated DataFrame is empty.">>)
    ELSE Exc("ValueError", <<"Fallback code did not return a DataFrame.">>)
\* fetch.py 194: f"{type(e).__name__}: {str(e)}"
ErrorSummary(e) == <<e.type>> \o Str(e)
\* fetch.py 198
FetchExhausted == Exc("RuntimeError", <<"All scraping strategies failed.">>)
\* fetch.py 109-110: requests.get / raise_for_status fail
HttpError == Exc("HTTPError", <<"request failed">>)

\* the first number in the oracle's answer to the selection prompt, against
\* the tables found (fetch.py 152-155)
IndexTexts == {"index in range", "index out of range", "no digits"}
\* what the answer held: an index of the tables ("valid") or none
IndexHeld(text) == IF text = "index in range" THEN "valid" ELSE "invalid"
\* a slip: whatever the answer, a table is returned
AnyIndex(text) == TRUE
\* fetch.py 152-155: int(re.search(r'\d+', ...).group()) indexes tables
ValidIndex(text) == text = "index in range"
\* a slip: the direct return of the only table is missing
NeverDirect(n) == FALSE
\* fetch.py 123: len(tables) == 1
OnlyOneTable(n) == n = 1
\* len(tables): the code tests only "not tables" and "len(tables) == 1", so
\* 2 stands for every page with several tables
TableCounts == {0, 1, 2}

\* fetch.py 161-163: the fallback loop is entered
FetchFallback ==
    IF InRange(0, max_retries)
    THEN /\ Goto("fetch_exec")
         /\ UNCHANGED frame
    ELSE AdapterRaise(FetchExhausted)

\* fetch.py 108-163: the page is fetched and read_html tried: one table is
\* returned as it is, of several the oracle selects one, and any failure of
\* that strategy falls back to generated code
ExtractRelevantData ==
    /\ pc = "extract_relevant_data"
    /\ \E http_ok \in BOOLEAN, n \in TableCounts, failed \in BOOLEAN, text \in IndexTexts :
         LET resp == Llm(ProviderCall(failed, text))
             unasked == ~failed /\ text = "no digits"
         IN  IF ~http_ok
             THEN /\ n = 0 /\ unasked
                  /\ AdapterRaise(HttpError)
                  /\ UNCHANGED <<oracle_calls, llm_ret, page>>
             ELSE /\ tables' = n
                  /\ IF n = 0
                     THEN /\ unasked
                          /\ FetchFallback
                          /\ UNCHANGED <<oracle_calls, llm_ret, best_index>>
                     ELSE IF OnlyOneTable(n)
                     THEN /\ unasked
                          /\ AdapterReturn("DataFrame")
                          /\ UNCHANGED <<oracle_calls, llm_ret, best_index>>
                     ELSE /\ llm_ret' = Handed(failed, resp)
                          /\ oracle_calls' = oracle_calls + 1
                          /\ best_index' = IndexHeld(resp.content)
                          /\ IF ValidIndex(resp.content)
                             THEN AdapterReturn("DataFrame")
                             ELSE FetchFallback
    /\ UNCHANGED <<inputs, planv, logical_file_path, tool, tool_arg, max_retries, execs>>

\* fetch.py 163-198: one round of the fallback loop: a script is generated
\* (with the last error summary), executed and its result checked
FetchExec ==
    /\ pc = "fetch_exec"
    /\ execs' = execs + 1
    /\ oracle_calls' = oracle_calls + 1
    /\ \E failed \in BOOLEAN :
         LET resp == Llm(ProviderCall(failed, "script"))
             scraping_code == ExtractPythonCode(resp)
         IN  /\ llm_ret' = Handed(failed, resp)
             /\ \E out \in ExecOutcomes(scraping_code) :
                  LET e == IF out.raised THEN out.exc ELSE FetchRejected(out.result)
                  IN  IF ~out.raised /\ FetchAccepts(out.result)
                      THEN AdapterReturn(out.result)
                      ELSE IF InRange(NextAttempt(t_attempt), max_retries)
                      THEN /\ script' = scraping_code
                           /\ error_log' = ErrorSummary(e)
                           /\ asked' = RegenerationRequest(error_log)
                           /\ t_attempt' = NextAttempt(t_attempt)
                           /\ Continue
                      ELSE AdapterRaise(FetchExhausted)
    /\ UNCHANGED <<inputs, planv, logical_file_path, tool, tool_arg, max_retries, page>>

\* ------------------------------------------------- handle_file_task
\* file_handler.py 278-286: the result is not None and has the type the
\* task description's keywords ask for
FileAccepts(kind, desc) ==
    /\ kind # "None"
    /\ desc = "table" => IsDataFrame(kind) \/ kind = "dict"
    /\ desc = "text" => kind = "str"
FileRejected(kind) ==
    IF kind = "None"
    THEN Exc("ValueError", <<"File handler code did not assign a value to the 'result' variable.">>)
    ELSE Exc("ValueError", <<"Expected another type, got", kind>>)
\* file_handler.py 288-295: the accepted result is returned with numpy
\* scalars unwrapped (.item()); byte buffers and images are not touched
FileNormalized(out) == Holding(out.result, out.raw)
\* file_handler.py 304
FileFailed(e) ==
    Exc("RuntimeError",
        <<"Failed to handle file after", ToString(max_retries), "attempts. Last error:">> \o Str(e))
\* file_handler.py 307
FileExhausted == Exc("RuntimeError", <<"File handler failed after all retries.">>)

\* a slip: an image is handled like any other file
NeverImage(file_type) == FALSE
\* file_handler.py 185
IsImage(file_type) == file_type = "image"

\* file_handler.py 180-266: an image goes to the vision oracle and its
\* answer is returned; for any other file the initial script is generated
HandleFileTask ==
    /\ pc = "handle_file_task"
    /\ oracle_calls' = oracle_calls + 1
    /\ \E failed \in BOOLEAN :
         IF IsImage(tool_arg.file_type)
         THEN LET resp == LlmVision(ProviderCall(failed, "answer"))
              IN  /\ llm_ret' = Handed(failed, resp)
                  /\ AdapterReturn("str")
         ELSE LET resp == Llm(ProviderCall(failed, "script"))
              IN  /\ llm_ret' = Handed(failed, resp)
                  /\ IF InRange(0, max_retries)
                     THEN /\ script' = ExtractPythonCode(resp)
                          /\ Goto("file_exec")
                          /\ UNCHANGED <<t_attempt, error_log, asked>>
                     ELSE AdapterRaise(FileExhausted)
    /\ logical_file_path' = ""
    /\ UNCHANGED <<inputs, planv, tool, tool_arg, max_retries, execs, page>>

\* file_handler.py 266-307: one round of the loop
FileExec ==
    /\ pc = "file_exec"
    /\ execs' = execs + 1
    /\ \E out \in ExecOutcomes(script), failed \in BOOLEAN :
         LET e == IF out.raised THEN out.exc ELSE FileRejected(out.result)
             resp == Llm(ProviderCall(failed, "script"))
             final == FileNormalized(out)
         IN  IF ~out.raised /\ FileAccepts(out.result, tool_arg.desc)
             THEN /\ ~failed
                  /\ AdapterReturnValue(final.result, final.raw)
                  /\ UNCHANGED <<oracle_calls, llm_ret>>
             ELSE IF IsLastAttempt(t_attempt, max_retries)
             THEN /\ ~failed
                  /\ AdapterRaise(FileFailed(e))
                  /\ UNCHANGED <<oracle_calls, llm_ret>>
             ELSE /\ llm_ret' = Handed(failed, resp)
                  /\ oracle_calls' = oracle_calls + 1
                  /\ IF InRange(NextAttempt(t_attempt), max_retries)
                     THEN /\ script' = ExtractPythonCode(resp)
                          /\ t_attempt' = NextAttempt(t_attempt)
                          /\ Continue
                          /\ asked' = CorrectionRequest(t_attempt)
                          /\ UNCHANGED error_log
                     ELSE AdapterRaise(FileExhausted)
    /\ UNCHANGED <<inputs, planv, logical_file_path, tool, tool_arg, max_retries, page>>

\* ----------------------------------------------------- analyze_data
\* a slip: an unassigned result is taken as well
AnyResult(kind) == TRUE
\* analyze.py 154: any result that is not None
AnalyzeAccepts(kind) == kind # "None"
AnalyzeRejected ==
    Exc("ValueError", <<"Analysis code did not assign a value to the 'result' variable.">>)
\* analyze.py 132-152: to_base64_image turns a byte buffer or image into a
\* data URI string; it is applied to the values of a dict result, or else to
\* the result itself
AnalyzeNormalized(out) ==
    IF out.result = "dict"
    THEN Holding("dict", IF out.raw = "value" THEN "none" ELSE out.raw)
    ELSE IF out.raw = "self"
    THEN Holding("str", "none")
    ELSE Holding(out.result, out.raw)
\* analyze.py 122-130: exec runs the script with data_context in its scope
\* and Python's builtins (open among them) and pandas at hand: a script
\* takes its data from the entries of the context, or from a file it opens
ScriptReads == {"context", "ambient"}
\* analyze.py 175
AnalyzeFailed(e) ==
    Exc("RuntimeError",
        <<"Failed to analyze data after", ToString(max_retries), "attempts. Last error:">> \o Str(e))
\* analyze.py 180
AnalyzeExhausted == Exc("RuntimeError", <<"Analysis failed after all retries.">>)

\* analyze.py 71-116: the initial code is generated, the loop entered
AnalyzeData ==
    /\ pc = "analyze_data"
    /\ oracle_calls' = oracle_calls + 1
    /\ \E failed \in BOOLEAN :
         LET resp == Llm(ProviderCall(failed, "script"))
         IN  /\ llm_ret' = Handed(failed, resp)
             /\ IF InRange(0, max_retries)
                THEN /\ script' = ExtractPythonCode(resp)
                     /\ Goto("analyze_exec")
                     /\ UNCHANGED <<t_attempt, error_log, asked>>
                ELSE AdapterRaise(AnalyzeExhausted)
    /\ UNCHANGED <<inputs, planv, logical_file_path, tool, tool_arg, max_retries, execs, page>>

\* analyze.py 116-180: one round of the loop
AnalyzeExec ==
    /\ pc = "analyze_exec"
    /\ execs' = execs + 1
    /\ \E out \in ExecOutcomes(script), failed \in BOOLEAN :
         LET e == IF out.raised THEN out.exc ELSE AnalyzeRejected
             resp == Llm(ProviderCall(failed, "script"))
             final == AnalyzeNormalized(out)
         IN  IF ~out.raised /\ AnalyzeAccepts(final.result)
             THEN /\ ~failed
                  /\ \E reads \in ScriptReads :
                       AdapterReturnFrom(final.result, final.raw, reads)
                  /\ UNCHANGED <<oracle_calls, llm_ret>>
             ELSE IF IsLastAttempt(t_attempt, max_retries)
             THEN /\ ~failed
                  /\ AdapterRaise(AnalyzeFailed(e))
                  /\ UNCHANGED <<oracle_calls, llm_ret>>
             ELSE /\ llm_ret' = Handed(failed, resp)
                  /\ oracle_calls' = oracle_calls + 1
                  /\ IF InRange(NextAttempt(t_attempt), max_retries)
                     THEN /\ script' = ExtractPythonCode(resp)
                          /\ t_attempt' = NextAttempt(t_attempt)
                          /\ Continue
                          /\ asked' = CorrectionRequest(t_attempt)
                          /\ UNCHANGED error_log
                     ELSE AdapterRaise(AnalyzeExhausted)
    /\ UNCHANGED <<inputs, planv, logical_file_path, tool, tool_arg, max_retries, page>>

\* ------------------------------------------------------ specification
Next ==
    \/ AttemptStart
    \/ LoopExhausted
    \/ GetPlan
    \/ Dispatch
    \/ RetrieveDataAsDf
    \/ DuckdbExec
    \/ ExtractRelevantData
    \/ FetchExec
    \/ HandleFileTask
    \/ FileExec
    \/ AnalyzeData
    \/ AnalyzeExec

Spec == Init /\ [][Next]_vars

\* the run is one thread of control: while it has a next step, it takes it
\* (every oracle call, fetch and script execution returns)
FairSpec == Spec /\ WF_vars(Next)

Done == pc = "done"

\* ---------------------------------------------------------- properties
TaskRun == entry = "handle_task"
\* places of the code inside the step loop of handle_task and its adapters
StepPlaces == {"step", "retrieve_data_as_df", "duckdb_exec",
               "extract_relevant_data", "fetch_exec", "handle_file_task",
               "file_exec", "analyze_data", "analyze_exec"}
ExecPlaces == {"duckdb_exec", "fetch_exec", "file_exec", "analyze_exec"}
\* the attempt is past line 228: it has a plan and a context of its own
PlanRuns == TaskRun /\ plan # NoPlan /\ pc \in StepPlaces \cup {"done"}
Succeeded == TaskRun /\ pc = "done" /\ returned = "report" /\ results.error.none
StepNamesOf(p) == [k \in 1..Len(p) |-> p[k].step_name]
Upto(n) == [k \in 1..n |-> k]
Contains(text, part) == \E k \in 1..Len(text) : text[k] = part
EndsWith(text, tail) ==
    /\ Len(tail) <= Len(text)
    /\ SubSeq(text, Len(text) - Len(tail) + 1, Len(text)) = tail

\* C1: every adapter call (retrieve_data_as_df, handle_file_task,
\* analyze_data, the generation fallback of extract_relevant_data) executes
\* at most max_retries scripts: a round of the loop is entered only with
\* budget left, and a call that ends by an exception, other than the failed
\* HTTP request before the fallback, has executed exactly max_retries scripts
\* and raises RuntimeError
BoundedExecutions ==
    tool \in Adapters =>
        /\ execs <= max_retries
        /\ pc \in ExecPlaces => t_attempt < max_retries /\ execs = t_attempt
        /\ (tool_end.kind = "raised" /\ tool_end.exc # HttpError) =>
              /\ tool_end.exc.type = "RuntimeError"
              /\ execs = max_retries
\* the fallback of a fetch step used up its ten rounds
FetchGaveUp ==
    /\ tool = "extract_relevant_data"
    /\ tool_end = ToolRaised(FetchExhausted)
    /\ execs = FetchMaxRetries

ContextKeysArePlanSteps ==
    Succeeded => Keys(data_context) = StepNamesOf(plan)

EndsWithReport == TaskRun => <>(pc = "done" /\ returned = "report")

SingleDuckdbFailure ==
    /\ TaskRun /\ pc = "done" /\ returned = "report"
    /\ Len(plan) = 1
    /\ plan[1].tool_name = "duckdb_runner.retrieve_data_as_df"
    /\ tool = "retrieve_data_as_df"
    /\ tool_end.kind = "raised"
    /\ execs = DefaultMaxRetries
FailureNamesStep ==
    SingleDuckdbFailure =>
        /\ results.final_answers = NoneVal
        /\ ~results.error.none
        /\ Contains(results.error.text, plan[1].step_name)
        /\ \E out \in ExecOutcomes([sentinel |-> TRUE])
                        \cup ExecOutcomes([sentinel |-> FALSE]) :
              EndsWith(results.error.text,
                       Str(IF out.raised THEN out.exc
                           ELSE DuckdbRejected(out.result)))

\* C8: when a step raises, no step of the plan is stored or started after
\* it: with retries left the run is back at the loop head with the next
\* attempt, otherwise it ends with the error in the report; from the loop
\* head the next thing is the planning call, every planning call is made
\* with the original task text, and the steps of the new plan start from the
\* empty context
StepRaised == TaskRun /\ pc \in StepPlaces /\ ~results'.error.none
NoPartialResume ==
    [][/\ StepRaised =>
            /\ stored' = stored /\ i' = i /\ data_context' = data_context
            /\ IF attempt + 1 < max_global_retries
               THEN pc' = "handle_task" /\ attempt' = attempt + 1
               ELSE pc' = "done" /\ returned' = "report" /\ attempt' = attempt
       /\ (TaskRun /\ pc = "handle_task" /\ attempt > 0) =>
            pc' \in {"handle_task", "get_plan"}
       /\ (TaskRun /\ pc = "get_plan") =>
            /\ planner_arg' = full_task_text
            /\ pc' \in {"get_plan", "step", "handle_task", "done"}
            /\ pc' = "step" => data_context' = << >> /\ i' = 1 /\ stored' = << >>
      ]_vars
\* the second step raised, the first one's result is in the context, and
\* the run is at the loop head for its second attempt
SecondStepRaisedRetry ==
    /\ TaskRun /\ pc = "handle_task" /\ attempt = 1
    /\ plan # NoPlan /\ i = 2
    /\ Len(data_context) = 1
    /\ ~results.error.none

\* C9: the steps of one attempt run in plan order, one at a time: while
\* step i is dispatched or its adapter runs, exactly the steps before it have
\* been stored, in order, and a successful attempt has stored them all
InPlanOrder ==
    (TaskRun /\ plan # NoPlan) =>
        /\ i \in 1..Len(plan)
        /\ stored = Upto(IF Succeeded THEN Len(plan) ELSE i - 1)
        /\ pc \in StepPlaces \ {"step"} => tool_end = ToolRunning
\* the adapter of the second step is executing a script
SecondStepRuns ==
    /\ TaskRun /\ i = 2 /\ pc \in ExecPlaces
    /\ stored = <<1>>
    /\ execs >= 1

\* C10: llm and llm_vision never raise: whatever the provider does they
\* return a text, and it is the sentinel exactly when the provider failed
OracleNeverRaises ==
    /\ ~llm_ret.raised
    /\ llm_ret.failed <=> llm_ret.sentinel
\* the vision call failed and its sentinel came back as the adapter's value
VisionFailureReturned ==
    /\ tool = "handle_file_task"
    /\ tool_arg.file_type = "image"
    /\ tool_end.kind = "returned"
    /\ llm_ret.failed /\ llm_ret.sentinel /\ ~llm_ret.raised

\* C11: an adapter never succeeds on the oracle's failure sentinel: when an
\* adapter call that consulted the oracle returns, the answer it last got
\* (the script it ran, the index it selected by, the vision text it hands
\* back) is not the sentinel
SentinelNeverSucceeds ==
    (tool \in Adapters /\ tool_end.kind = "returned" /\ oracle_calls > 0) =>
        ~llm_ret.sentinel

\* C12: a value that analyze_data or handle_file_task returns holds no byte
\* buffer and no in-memory image anywhere, at the top, as a value of a dict,
\* as an element of a list or deeper
NoRawPayloadReturned ==
    (tool \in {"analyze_data", "handle_file_task"} /\ tool_end.kind = "returned") =>
        tool_raw = "none"

\* the adapter's value is in the context under the name of the step that
\* was stored last
StoredUnderStepName ==
    /\ stored # << >>
    /\ \E j \in 1..Len(data_context) :
          data_context[j] = [name |-> plan[stored[Len(stored)]].step_name,
                             val |-> tool_value]

\* C13: when the page holds exactly one table, extract_relevant_data
\* returns it: it makes no oracle call and executes no script, and under
\* handle_task the table is in the context under the step's name
SingleTableDirect ==
    (tool = "extract_relevant_data" /\ tables = 1) =>
        /\ tool_end.kind = "returned"
        /\ IsDataFrame(tool_value.kind)
        /\ oracle_calls = 0
        /\ execs = 0
        /\ TaskRun => StoredUnderStepName
\* a fetch step, the second of its plan, returned the only table of its page
SingleTableStored ==
    /\ TaskRun /\ tool = "extract_relevant_data" /\ tables = 1
    /\ Len(stored) = 2
    /\ StoredUnderStepName

\* C14 as stated: when the page holds several tables, extract_relevant_data
\* makes one oracle call and returns a table; it never enters the script
\* generation and execution cycle
SeveralTablesNoGeneration ==
    (tool = "extract_relevant_data" /\ tables >= 2) =>
        /\ tool_end.kind = "returned"
        /\ oracle_calls = 1
        /\ execs = 0
        /\ pc # "fetch_exec"
\* C14 as amended: when the page holds several tables, the first oracle call
\* of extract_relevant_data is the selection; if the answer holds a number
\* that is an index of the tables, that table is returned after this one call
\* and no script is generated or executed; otherwise the generation cycle is
\* entered, every round of which makes one more oracle call
SeveralTablesSelectOrFallBack ==
    (tool = "extract_relevant_data" /\ tables >= 2) =>
        /\ best_index \in {"valid", "invalid"}
        /\ best_index = "valid" =>
              /\ tool_end.kind = "returned"
              /\ IsDataFrame(tool_value.kind)
              /\ oracle_calls = 1
              /\ execs = 0
        /\ best_index = "invalid" =>
              /\ oracle_calls = 1 + execs
              /\ tool_end.kind = "returned" => execs >= 1
              /\ tool_end.kind = "running" => pc = "fetch_exec"
\* the selection gave no index and a script of the fallback was accepted
SelectionFailedScriptReturned ==
    /\ tool = "extract_relevant_data" /\ tables >= 2
    /\ best_index = "invalid"
    /\ tool_end.kind = "returned"
    /\ execs >= 1

\* the attempt failed at step i of its plan
FailedAtStep ==
    /\ TaskRun /\ plan # NoPlan
    /\ pc \in {"handle_task", "done"}
    /\ ~results.error.none

\* C15: an analyze.analyze_data step reached after its earlier steps
\* succeeded invokes the analysis adapter, so it fails only when the adapter
\* did: when no script assigned a result within the retry budget
AnalyzeStepInvokesAdapter ==
    (FailedAtStep /\ plan[i].tool_name = "analyze.analyze_data") =>
        /\ tool = "analyze_data"
        /\ tool_end.kind = "raised"
        /\ execs = max_retries

\* C16: analyze_data never returns as success the result of a script that
\* took its data from an ambient file instead of the entries of the context
AmbientReadNeverReturned ==
    (tool = "analyze_data" /\ tool_end.kind = "returned") =>
        tool_reads # "ambient"

\* C17: with exactly one uploaded attachment, every logical file name of a
\* file_handler step (matching, differently cased, partially matching or not
\* matching at all) resolves to that file: no run reports an unresolved file,
\* and the file adapter is entered with the path of the single upload
SingleUploadResolves ==
    (TaskRun /\ Len(attachments) = 1) =>
        /\ pc = "get_plan" =>
              \A n \in LogicalNames : ResolveFile(n, attachments) = attachments[1]
        /\ ~results.error.none => results.error.text[1] # "Could not resolve file"
        /\ tool = "handle_file_task" => tool_arg.path = attachments[1]
\* the file adapter is entered with the single upload for a logical name
\* that matches it by no strategy
UnmatchedNameResolved ==
    /\ TaskRun /\ Len(attachments) = 1
    /\ pc = "handle_file_task"
    /\ logical_file_path = "other.xlsx"
    /\ tool_arg.path = attachments[1]

\* a file step of a task without uploads failed to resolve its file
ResolutionFailed ==
    /\ TaskRun /\ attachments = << >>
    /\ ~results.error.none
    /\ results.error.text[1] = "Could not resolve file"
\* a file step of a task without uploads is about to be dispatched
FileStepWithoutUploads ==
    /\ TaskRun /\ attachments = << >>
    /\ pc = "step"
    /\ plan[i].tool_name = "file_handler.handle_file_task"

\* C18 as stated: with zero uploads, after the resolution failure of a file
\* step handle_task makes no further planning call and runs no further step
UnresolvedFileEndsTask ==
    [][ResolutionFailed => pc' \notin {"get_plan", "step"}]_vars

\* C18, amended: with zero uploads a file step never enters the file adapter
\* and raises before any script is generated or executed (a resolution
\* failure when the step has a task description and names a file); the step
\* is not retried within the attempt and no further step of the plan runs;
\* the next thing handle_task does is to return the report or, with whole-run
\* budget left, to start a new attempt from a fresh plan
UnresolvedFileEndsAttempt ==
    [][/\ FileStepWithoutUploads =>
            /\ pc' \in {"handle_task", "done"}
            /\ ~results'.error.none
            /\ results'.error.text[1] \in
                 {"Could not resolve file",
                  "Plan for 'file_handler.handle_file_task' tool is missing task_description.",
                  "Expected a dictionary or string for file_handler tool input",
                  "expected str, bytes or os.PathLike object, not NoneType"}
            /\ tool' = "none" /\ execs' = 0 /\ oracle_calls' = 0
       /\ ResolutionFailed =>
            /\ pc' # "step"
            /\ pc' = "get_plan" =>
                 /\ InRange(attempt, max_global_retries)
                 /\ plan' = NoPlan
                 /\ results' = FreshResults
      ]_vars
\* the resolution failure was caught and a whole-run retry is due
UnresolvedFileRetryDue ==
    /\ ResolutionFailed
    /\ pc = "handle_task"
    /\ tool = "none" /\ execs = 0 /\ oracle_calls = 0

\* C19: one call of get_plan makes at most 3 oracle calls (the call made at
\* loop index plan_attempt is call number plan_attempt + 1, and no answer has
\* been held before the first); an answer that holds a non-empty list of
\* dictionaries with the keys tool_name, tool_input and step_name is
\* returned at once as the plan; any other answer leads to the next call, and
\* the third one to RuntimeError instead of a plan
PlanningBounded ==
    [][pc = "get_plan" =>
         /\ plan_attempt \in 0..(PlanAttempts - 1)
         /\ plan_held = (IF plan_attempt = 0 THEN "none" ELSE "invalid")
         /\ plan_held' \in {"valid", "invalid"}
         /\ plan_held' = "valid" =>
              /\ pc' = "step"
              /\ plan' # NoPlan
              /\ PlanHeld(JsonList(plan')) = "valid"
              /\ results' = results
         /\ plan_held' = "invalid" =>
              IF plan_attempt + 1 = PlanAttempts
              THEN /\ pc' \in {"handle_task", "done"}
                   /\ plan' = NoPlan
                   /\ results'.error = ErrorText(Str(PlanError))
              ELSE /\ pc' = "get_plan"
                   /\ plan_attempt' = plan_attempt + 1
                   /\ plan' = NoPlan
      ]_vars
\* three answers of one get_plan call were invalid and the run reports the
\* planning failure
PlanningFailureReported ==
    /\ TaskRun /\ pc = "done" /\ returned = "report"
    /\ plan_held = "invalid"
    /\ plan = NoPlan
    /\ results.error = ErrorText(Str(PlanError))

\* C20: the plan that handle_task executes has pairwise-distinct step names,
\* and the context holds one entry for every step stored so far (none was
\* overwritten by a later step)
DistinctStepNames ==
    TaskRun =>
        /\ \A j, k \in DOMAIN plan :
              j # k => plan[j].step_name # plan[k].step_name
        /\ pc \in StepPlaces => Len(data_context) = Len(stored)

\* C21: during one attempt of handle_task the context only grows: an entry
\* stored for a step keeps its key and its value through every later action
ContextOnlyGrows ==
    [][(TaskRun /\ pc \in StepPlaces /\ attempt' = attempt) =>
          /\ Len(data_context') >= Len(data_context)
          /\ \A k \in DOMAIN data_context : data_context'[k] = data_context[k]
      ]_vars

\* C22: whatever the tool of a plan step, the adapter that handle_task calls
\* for it is passed the accumulated context
EveryAdapterGetsContext ==
    (TaskRun /\ tool # "none") => tool_arg.context

\* C23: in every adapter, a request for a new script made after a failed
\* round carries the script that was just executed (the one of the round
\* before the current one) and the whole error text of its failure
CorrectionCarriesScriptAndError ==
    asked # NoRequest =>
        /\ asked.script = t_attempt - 1
        /\ asked.error = "traceback"

\* the results an adapter's loop may return, by the adapter's contract
ShapeAccepted(adapter, kind, arg) ==
    CASE adapter = "retrieve_data_as_df" -> kind \in {"DataFrame", "EmptyDataFrame"}
      [] adapter = "extract_relevant_data" -> kind = "DataFrame"
      [] adapter = "handle_file_task" ->
           /\ kind # "None"
           /\ arg.desc = "table" => kind \in {"DataFrame", "EmptyDataFrame", "dict"}
           /\ arg.desc = "text" => kind = "str"
      [] adapter = "analyze_data" -> kind # "None"
      [] OTHER -> FALSE
\* the oracle calls an adapter made before its loop: the initial script, or
\* the selection among several tables
CallsBeforeLoop ==
    IF tool = "extract_relevant_data"
    THEN (IF best_index = "none" THEN 0 ELSE 1)
    ELSE 1

\* C24: in every adapter a script that ran without fault but left result
\* None or of the wrong shape is handled like one that raised: no such result
\* is ever returned, and every round run so far, whatever its failure, has
\* consumed one attempt of the budget and has been followed by one request
\* for a new script before the next execution
RejectedLikeRaised ==
    /\ pc \in ExecPlaces =>
          /\ execs = t_attempt
          /\ t_attempt < max_retries
          /\ oracle_calls = CallsBeforeLoop + t_attempt
    /\ (tool # "none" /\ tool_end.kind = "returned" /\ execs > 0) =>
          ShapeAccepted(tool, tool_value.kind, tool_arg)
    /\ (tool # "none" /\ tool_end.kind = "raised" /\ execs > 0) =>
          execs = max_retries
\* the last script of retrieve_data_as_df ran without fault but did not
\* assign a DataFrame: the adapter gave up as after a script that raised,
\* having corrected after every earlier round
RejectedResultExhausted ==
    /\ tool = "retrieve_data_as_df"
    /\ tool_end.kind = "raised"
    /\ Contains(tool_end.exc.text, "Script did not return a pandas DataFrame. Got type:")
    /\ execs = max_retries /\ execs >= 2
    /\ oracle_calls = execs

\* C25: for an image, handle_file_task makes one oracle call, the vision
\* call, and returns its text: no script is generated, executed or
\* corrected, whatever the retry budget
ImageOneVisionCall ==
    (tool = "handle_file_task" /\ tool_arg.file_type = "image"
       /\ pc # "handle_file_task") =>
        /\ tool_end.kind = "returned"
        /\ tool_value.kind = "str"
        /\ oracle_calls = 1
        /\ execs = 0
        /\ asked = NoRequest
        /\ pc \notin ExecPlaces
\* an image was handled by a call that had no retry budget at all
ImageAnsweredWithoutBudget ==
    /\ tool = "handle_file_task" /\ tool_arg.file_type = "image"
    /\ max_retries = 0
    /\ tool_end.kind = "returned"
    /\ oracle_calls = 1
    /\ ~llm_ret.sentinel

\* C26: for a file that is not an image, what handle_file_task returns is a
\* table, a string, or a mapping whose values are all tables
FileResultsInContract ==
    (tool = "handle_file_task" /\ tool_arg.file_type # "image"
       /\ tool_end.kind = "returned") =>
        \/ tool_value.kind \in {"DataFrame", "EmptyDataFrame", "str"}
        \/ tool_value.kind = "dict" /\ tool_raw = "none"

\* C28: once handle_task has returned, none of the temp files it made for
\* the attachments remains
NoTempFileLeft ==
    (TaskRun /\ pc = "done") => temp_files = {}

\* ------------------------------------------------- the /api boundary
\* the entries of a submitted form, in order: uploaded files by file name,
\* and "note", a plain field that is not a file
FormEntries == {"q.txt", "task.csv", "data.csv", "note"}
Forms == {<< >>} \cup {<<a>> : a \in FormEntries}
           \cup {<<a, b>> : a \in FormEntries, b \in FormEntries}
\* main.py 117: hasattr(uploaded_file, 'filename') and uploaded_file.filename
IsFile(n) == n # "note"
\* main.py 122-126: the name ends with .txt or has question, task or prompt
IsTaskFile(n) == n \in {"q.txt", "task.csv"}

\* a text that api_analyze decoded: the content of a file read for the
\* first time, the nothing that a second read() of the same upload gives
\* (the stream is at its end), the default text, or None
TextOf(n) == [text |-> "content", file |-> n]
RereadOf(n) == [text |-> "empty", file |-> n]
DefaultTask == [text |-> "Analyze the uploaded files", file |-> "None"]
NoTask == [text |-> "None", file |-> "None"]

\* attachments_dict[name] = content and attachments_dict.pop(name, None)
AddFile(dict, n) == IF n \in Elems(dict) THEN dict ELSE Append(dict, n)
PopFile(dict, n) == SelectSeq(dict, LAMBDA m : m # n)

\* main.py 111-137: the first pass over the form
RECURSIVE FirstPass(_, _, _)
FirstPass(form, task, dict) ==
    IF form = << >> THEN [task |-> task, dict |-> dict]
    ELSE LET n == Head(form)
         IN  IF ~IsFile(n) THEN FirstPass(Tail(form), task, dict)
             ELSE IF IsTaskFile(n) /\ task = NoTask
             THEN FirstPass(Tail(form), TextOf(n), dict)
             ELSE FirstPass(Tail(form), task, AddFile(dict, n))

\* main.py 140-160: no task file was found: the first file is read again and
\* decoded, and taken out of the attachments; without any file the default
\* text is the task
SecondPass(form, first) ==
    LET files == SelectSeq(form, IsFile)
    IN  IF first.task # NoTask \/ form = << >> THEN first
        ELSE IF files = << >> THEN [task |-> DefaultTask, dict |-> first.dict]
        ELSE [task |-> RereadOf(files[1]), dict |-> PopFile(first.dict, files[1])]

\* main.py 106-165: the task and the attachments api_analyze finds in a form
SplitForm(form) == SecondPass(form, FirstPass(form, NoTask, << >>))

\* what api_analyze answers with
NoResponse == [sent |-> FALSE, body |-> "None", error |-> "absent"]
\* main.py 162-165 and 180-184: a dictionary with the key error
ErrorResponse == [sent |-> TRUE, body |-> "None", error |-> "text"]
\* main.py 174-175: result["final_answers"] alone
AnswersResponse(result) ==
    [sent |-> TRUE, body |-> result.final_answers, error |-> "absent"]

\* agent.py 162: max_global_retries when the caller passes none
GlobalRetriesDefault == 3
\* the report dict of one attempt (agent.py 170-176)
ReportOf(final, err) == [final_answers |-> final, error |-> err]
\* the step names of the plans a request's planner answers with
RequestPlans == {<<"a">>, <<"a", "b">>}
\* how a step of a request's plan ends: with a table, with another value or
\* with an exception
StepEnds == {"DataFrame", "answer", "raised"}

Requests == {1, 2}
\* the forms of the requests; the second request submits one of two
RequestForms(r) ==
    IF r = 1 THEN Forms ELSE {<<"q.txt", "data.csv">>, <<"data.csv">>}
Received(form) ==
    [pc |-> "received", form_data |-> form, task |-> NoTask,
     attachments_dict |-> << >>, attempt |-> 0,
     results |-> ReportOf("None", "None"), plan |-> << >>,
     data_context |-> << >>, i |-> 0, response |-> NoResponse]

ApiInit ==
    /\ InitLocals
    /\ entry = "api_analyze"
    /\ attachments = << >>
    /\ max_global_retries = 0
    /\ pc = "api_analyze"
    /\ tool = "none"
    /\ tool_arg = NoToolArg
    /\ max_retries = 0
    /\ data_context = << >>
    /\ tool_end = ToolIdle
    /\ requests \in [Requests -> UNION {{Received(f) : f \in RequestForms(r)} : r \in Requests}]
    /\ \A r \in Requests : requests[r].form_data \in RequestForms(r)
    /\ actor = 0
    /\ tally = << >>

\* a slip: the state of a call is kept in one place for all requests
Shared(r) == 1
\* the locals of api_analyze and of the handle_task it calls belong to the
\* call: each request has its own (no module of the repository keeps
\* task state at module level)
Own(r) == r

\* request r takes a step that leaves its call in this state
Becomes(r, state) ==
    /\ requests' = [requests EXCEPT ![Own(r)] = state]
    /\ actor' = r
    /\ UNCHANGED <<entry, full_task_text, attachments, max_global_retries,
                   scope, tally, orch, planv, toolv, llm_ret>>

\* agent.py 347-353 for the call of a request
CaughtBy(me) ==
    LET failed == [me EXCEPT !.results.error = "text"]
    IN  IF IsLastAttempt(me.attempt, GlobalRetriesDefault)
        THEN [failed EXCEPT !.pc = "returned"]
        ELSE [failed EXCEPT !.pc = "handle_task", !.attempt = NextAttempt(me.attempt)]

\* main.py 106-171: the form is read, task and attachments are told apart
\* and handle_task is called, or the answer is that no task was given
ApiAnalyze(r) ==
    LET me == requests[Own(r)]
        found == SplitForm(me.form_data)
    IN  /\ me.pc = "received"
        /\ IF found.task = NoTask
           THEN Becomes(r, [me EXCEPT !.pc = "responded", !.response = ErrorResponse])
           ELSE Becomes(r, [me EXCEPT !.pc = "handle_task", !.task = found.task,
                                       !.attachments_dict = found.dict])

\* agent.py 167-226 for the call of a request
AttemptStartOf(r) ==
    LET me == requests[Own(r)]
    IN  /\ me.pc = "handle_task"
        /\ InRange(me.attempt, GlobalRetriesDefault)
        /\ Becomes(r, [me EXCEPT !.pc = "get_plan",
                                 !.results = ReportOf("None", "None"),
                                 !.plan = << >>, !.data_context = << >>, !.i = 0])

\* agent.py 226-243: get_plan returns a plan or raises
GetPlanOf(r) ==
    LET me == requests[Own(r)]
    IN  /\ me.pc = "get_plan"
        /\ \/ \E p \in RequestPlans :
                Becomes(r, [me EXCEPT !.pc = "step", !.plan = p,
                                      !.data_context = << >>, !.i = 1])
           \/ Becomes(r, CaughtBy(me))

\* agent.py 243-345: a step of the plan ends; its result is stored and
\* reported, and the report returned after the last step
StepOf(r) ==
    LET me == requests[Own(r)]
    IN  /\ me.pc = "step"
        /\ \E end \in StepEnds :
             IF end = "raised" THEN Becomes(r, CaughtBy(me))
             ELSE LET kept == [me EXCEPT
                                !.data_context = AddFile(@, me.plan[me.i]),
                                !.results.final_answers =
                                    IF end = "DataFrame" THEN @ ELSE "answer"]
                  IN  IF NextStep(me.i) > Len(me.plan)
                      THEN Becomes(r, [kept EXCEPT !.pc = "returned"])
                      ELSE Becomes(r, [kept EXCEPT !.i = NextStep(me.i)])

\* main.py 171-178: the answer is made of what handle_task returned
ApiRespond(r) ==
    LET me == requests[Own(r)]
    IN  /\ me.pc = "returned"
        /\ Becomes(r, [me EXCEPT !.pc = "responded",
                                 !.response = AnswersResponse(me.results)])

ApiNext ==
    \E r \in Requests :
        \/ ApiAnalyze(r)
        \/ AttemptStartOf(r)
        \/ GetPlanOf(r)
        \/ StepOf(r)
        \/ ApiRespond(r)

ApiSpec == ApiInit /\ [][ApiNext]_vars

\* C27: two runs interleaved in any way share no run state: a step of one
\* request leaves the context, report, plan and counters of every other
\* request as they were
RunsShareNothing ==
    [][\A s \in DOMAIN requests :
          s # actor' => requests'[s] = requests[s]]_vars
\* both requests are in the middle of their runs, at different attempts and
\* with different contexts
TwoRunsInterleaved ==
    /\ entry = "api_analyze"
    /\ requests[1].pc = "step" /\ requests[2].pc = "step"
    /\ requests[1].attempt = 2 /\ requests[2].attempt = 1
    /\ requests[1].data_context = <<"a">> /\ requests[2].data_context = << >>
    /\ actor = 2

\* C29: when the run of a request ended in terminal failure (the report
\* handle_task returned has its error set), the answer of /api carries
\* that error
FailureResponseCarriesError ==
    \A r \in DOMAIN requests :
        (requests[r].pc = "responded" /\ requests[r].results.error # "None")
            => requests[r].response.error = requests[r].results.error

\* the uploaded files of a form, and those that qualify as the task file
FilesOf(form) == SelectSeq(form, IsFile)
TaskFilesOf(form) == SelectSeq(form, IsTaskFile)
\* a sequence without its first occurrence of n
RECURSIVE WithoutFirst(_, _)
WithoutFirst(list, n) ==
    IF list = << >> THEN << >>
    ELSE IF Head(list) = n THEN Tail(list)
    ELSE <<Head(list)>> \o WithoutFirst(Tail(list), n)

\* C30: once /api has told task and attachments apart: when no uploaded
\* file qualifies as the task file the task is the default text and every
\* uploaded file is an attachment; otherwise the first qualifying file is
\* the task and all other files are the attachments
DefaultTaskWhenNoneQualifies ==
    \A r \in DOMAIN requests :
        LET me == requests[r]
            files == FilesOf(me.form_data)
            named == TaskFilesOf(me.form_data)
        IN  me.pc # "received" =>
              IF named = << >>
              THEN /\ me.task = DefaultTask
                   /\ Elems(me.attachments_dict) = Elems(files)
              ELSE /\ me.task = TextOf(named[1])
                   /\ Elems(me.attachments_dict) = Elems(WithoutFirst(files, named[1]))
\* the half of C30 that the code keeps: with a qualifying file, the first
\* one is the task and the other files are the attachments
FirstTaskFileIsTask ==
    \A r \in DOMAIN requests :
        LET me == requests[r]
            files == FilesOf(me.form_data)
            named == TaskFilesOf(me.form_data)
        IN  (me.pc # "received" /\ named # << >>) =>
               /\ me.task = TextOf(named[1])
               /\ Elems(me.attachments_dict) = Elems(WithoutFirst(files, named[1]))

\* C31: a plan step that has no name is executed, under the positional name
\* step_<i>: once the planner has answered with steps of which one lacks
\* the key step_name, handle_task is at the steps of that plan
UnnamedStepIsExecuted ==
    plan_unnamed =>
        /\ pc = "step"
        /\ \E k \in 1..Len(plan) : "step_name" \notin plan[k].keys
\* what the code does instead: every step that is executed has the key
\* step_name, and no result is stored under a positional name
StoredUnderGivenNames ==
    /\ \A k \in 1..Len(plan) : "step_name" \in plan[k].keys
    /\ KeySet(data_context) \subseteq StepNames

\* an adapter that generates a script before its loop and corrects it after
\* a failure is past that generation (an image never gets there)
ScriptAdapterRuns ==
    /\ tool \in {"analyze_data", "retrieve_data_as_df", "handle_file_task"}
    /\ pc # tool
    /\ ~(tool = "handle_file_task" /\ IsImage(tool_arg.file_type))
\* the failed attempts of the adapter call so far that were not the last
\* allowed one
CorrectedFailures ==
    IF tool_end.kind = "returned" THEN execs - 1
    ELSE IF tool_end.kind = "raised" /\ execs > 0 THEN execs - 1
    ELSE execs
\* C32 as stated: in one invocation of analyze_data, retrieve_data_as_df or
\* handle_file_task (not an image) the oracle calls are 1 plus the failed
\* attempts other than the last allowed one, hence at most max_retries
OracleCallsWithinRetries ==
    ScriptAdapterRuns =>
        /\ oracle_calls = 1 + CorrectedFailures
        /\ oracle_calls <= max_retries
\* C32 as amended: the oracle calls are 1 (the initial generation, made
\* before the first execution and whatever the budget) plus the failed
\* attempts other than the last allowed one: at most max_retries when
\* max_retries >= 1, and exactly 1 with no execution when max_retries = 0; no
\* correction follows the final failed attempt or a successful one
OracleCallsOnePlusCorrections ==
    ScriptAdapterRuns =>
        /\ oracle_calls = 1 + CorrectedFailures
        /\ max_retries >= 1 => oracle_calls <= max_retries
        /\ max_retries = 0 =>
              oracle_calls = 1 /\ execs = 0 /\ tool_end.kind = "raised"
        /\ pc \in ExecPlaces => execs = t_attempt /\ t_attempt < max_retries
        /\ tool_end.kind = "returned" => execs >= 1 /\ oracle_calls = execs
        /\ (tool_end.kind = "raised" /\ execs > 0) =>
              execs = max_retries /\ oracle_calls = max_retries
\* handle_file_task, called for a table file with two attempts allowed, gave
\* up after both failed: it had asked the oracle twice
FileTaskGaveUpAfterTwo ==
    /\ tool = "handle_file_task" /\ tool_arg.file_type = "csv"
    /\ max_retries = 2
    /\ tool_end.kind = "raised"
    /\ execs = 2
    /\ oracle_calls = 2

\* -------------------------------------- the retry budgets of one call
\* handle_task with the plans of one step; of planning and of the step only
\* the loops are kept: whether the planner's answer is a valid plan and
\* whether a script of the step is accepted are chosen freely.  attempts,
\* planner_calls, step_execs and failures count, over the whole call, the
\* loop bodies begun, the calls get_plan made to the oracle, the scripts of
\* the step executed, and the exceptions handle_task caught
StartTally(budget, retries) ==
    [pc |-> "handle_task", max_global_retries |-> budget, max_retries |-> retries,
     attempt |-> 0, plan_attempt |-> 0, t_attempt |-> 0, returned |-> "running",
     error |-> FALSE, attempts |-> 0, planner_calls |-> 0, step_execs |-> 0,
     failures |-> 0]

TallyInit ==
    /\ InitLocals
    /\ entry = "handle_task"
    /\ attachments = << >>
    /\ max_global_retries = 0
    /\ pc = "tally"
    /\ tool = "none"
    /\ tool_arg = NoToolArg
    /\ max_retries = 0
    /\ data_context = << >>
    /\ tool_end = ToolIdle
    /\ requests = << >>
    /\ actor = 0
    /\ \E budget \in 0..MaxGlobalRetries, retries \in {DefaultMaxRetries, FetchMaxRetries} :
         tally = StartTally(budget, retries)

TallyBecomes(state) ==
    /\ tally' = state
    /\ UNCHANGED <<entry, full_task_text, attachments, max_global_retries,
                   requests, actor, scope, orch, planv, toolv, llm_ret>>

\* agent.py 347-353 with the counters
TallyCatch(t) ==
    LET failed == [t EXCEPT !.error = TRUE, !.failures = @ + 1,
                            !.plan_attempt = 0, !.t_attempt = 0]
    IN  IF IsLastAttempt(t.attempt, t.max_global_retries)
        THEN [failed EXCEPT !.pc = "done", !.returned = "report"]
        ELSE [failed EXCEPT !.pc = "handle_task", !.attempt = NextAttempt(t.attempt)]

\* agent.py 169-178: the body of the loop begins
TallyAttempt ==
    /\ tally.pc = "handle_task"
    /\ InRange(tally.attempt, tally.max_global_retries)
    /\ TallyBecomes([tally EXCEPT !.pc = "get_plan", !.error = FALSE,
                                  !.attempts = @ + 1])

\* agent.py 355: the loop is over without a return
TallyExhausted ==
    /\ tally.pc = "handle_task"
    /\ ~InRange(tally.attempt, tally.max_global_retries)
    /\ TallyBecomes([tally EXCEPT !.pc = "done",
                       !.returned = IF tally.attempts = 0 THEN "raised" ELSE "report"])

\* agent.py 113-158: one round of get_plan
TallyPlan ==
    /\ tally.pc = "get_plan"
    /\ LET asked_once == [tally EXCEPT !.planner_calls = @ + 1]
       IN  \/ TallyBecomes([asked_once EXCEPT !.pc = "step", !.plan_attempt = 0])
           \/ IF IsLastAttempt(tally.plan_attempt, PlanAttempts)
              THEN TallyBecomes(TallyCatch(asked_once))
              ELSE TallyBecomes([asked_once EXCEPT
                                   !.plan_attempt = NextAttempt(tally.plan_attempt)])

\* one round of the step's adapter: its script is executed and accepted, or
\* it fails and is tried again, or the adapter raises after the last round
TallyExec ==
    /\ tally.pc = "step"
    /\ LET ran == [tally EXCEPT !.step_execs = @ + 1]
       IN  \/ TallyBecomes([ran EXCEPT !.pc = "done", !.returned = "report",
                                       !.t_attempt = 0])
           \/ IF InRange(NextAttempt(tally.t_attempt), tally.max_retries)
              THEN TallyBecomes([ran EXCEPT !.t_attempt = NextAttempt(tally.t_attempt)])
              ELSE TallyBecomes(TallyCatch(ran))

TallyNext ==
    \/ TallyAttempt
    \/ TallyExhausted
    \/ TallyPlan
    \/ TallyExec

TallySpec == TallyInit /\ [][TallyNext]_vars

\* C33: one handle_task call makes at most max_global_retries global
\* attempts, a new one only after the one before failed and none after a
\* success; it makes at most 3 * max_global_retries planner calls and
\* executes the scripts of a step at most max_retries * max_global_retries
\* times before it reports the failure
WholeRunBudget ==
    tally # << >> =>
        /\ tally.attempts <= tally.max_global_retries
        /\ tally.attempts <= tally.failures + 1
        /\ (tally.pc = "handle_task" /\ tally.attempts > 0) =>
              tally.error /\ tally.attempts = tally.failures
        /\ (tally.returned = "report" /\ ~tally.error) =>
              tally.pc = "done" /\ tally.attempts = tally.failures + 1
        /\ tally.planner_calls <= PlanAttempts * tally.max_global_retries
        /\ tally.step_execs <= tally.max_retries * tally.max_global_retries
\* the step failed in every round of both attempts of a call with
\* max_global_retries = 2, and the failure is reported
StepFailedEveryAttempt ==
    /\ tally # << >>
    /\ tally.max_global_retries = 2 /\ tally.max_retries = DefaultMaxRetries
    /\ tally.pc = "done" /\ tally.returned = "report" /\ tally.error
    /\ tally.attempts = 2
    /\ tally.step_execs = DefaultMaxRetries * 2

\* the global attempt that ended the call ran every step of its plan and
\* stored each result
LastAttemptRanAllSteps == plan # NoPlan /\ stored = Upto(Len(plan))
\* C34: the report handle_task returns has error None exactly when the
\* last global attempt ran every step of its plan without an exception; no
\* error of an earlier, failed attempt is in the report of a later attempt
\* that succeeded
ErrorNoneIffLastAttemptSucceeded ==
    (TaskRun /\ pc = "done" /\ returned = "report") =>
        /\ results.bound
        /\ results.error.none <=> LastAttemptRanAllSteps
        /\ LastAttemptRanAllSteps => tool_end.kind # "raised"
\* the second attempt of a call succeeded with a plan of two steps after the
\* first one had failed and had its error recorded
SucceededAfterFailedAttempt ==
    /\ TaskRun /\ pc = "done" /\ returned = "report"
    /\ attempt = 1
    /\ Len(plan) = 2 /\ stored = <<1, 2>>
    /\ results.error.none

\* the kinds of result that are tables (pd.DataFrame)
TableKinds == {"DataFrame", "EmptyDataFrame"}
\* C35: final_answers of the report is the result of the last step run in
\* the final global attempt whose result is not a table, and None when every
\* step run returned a table: it is None when an attempt begins, a step
\* that returns a table leaves it as it is, a step that returns anything else
\* becomes it, and a failure leaves it as it is
FinalAnswersIsLastNonTable ==
    /\ [](TaskRun /\ results.bound /\ pc # "handle_task" =>
            /\ results.final_answers = NoneVal <=>
                  Len(results.dataframe_preview) = Len(stored)
            /\ results.final_answers # NoneVal =>
                  /\ results.final_answers.kind \notin TableKinds
                  /\ results.final_answers.att = attempt)
    /\ [][(TaskRun /\ results'.bound) =>
            results'.final_answers =
               IF Len(stored') = Len(stored) + 1
               THEN (IF tool_value'.kind \in TableKinds
                     THEN results.final_answers ELSE tool_value')
               ELSE IF stored' = << >> THEN NoneVal
               ELSE results.final_answers]_vars
\* the report of a failed call holds an answer: the first step of the last
\* attempt returned a text and the second step failed
AnswerInFailedReport ==
    /\ TaskRun /\ pc = "done" /\ returned = "report"
    /\ ~results.error.none
    /\ stored = <<1>> /\ Len(plan) = 2
    /\ results.final_answers.kind = "str"
    /\ results.final_answers.att = attempt

\* C36: a step with an unknown tool, a duckdb step whose input is no
\* string, a fetch step whose input is no dictionary or has no url, and a
\* file step without a task description raise before an adapter or the
\* oracle is called for the step, and no entry is put into the context for
\* it; the plan of such a step had passed get_plan's validation
MalformedStepRaisesBeforeCall ==
    (TaskRun /\ step_input = "malformed") =>
        /\ PlanHeld(JsonList(plan)) = "valid"
        /\ pc \in {"handle_task", "done"}
        /\ ~results.error.none
        /\ tool = "none" /\ tool_end = ToolIdle
        /\ oracle_calls = 0 /\ execs = 0
        /\ \A j \in 1..Len(stored) : stored[j] < i
        /\ Len(data_context) <= Len(stored)
\* the second step of a plan named a tool that does not exist; the first
\* step had stored its result
UnknownToolAfterStoredStep ==
    /\ TaskRun /\ step_input = "malformed"
    /\ i = 2 /\ plan[2].tool_name = "other.tool"
    /\ stored = <<1>>
    /\ KeySet(data_context) = {plan[1].step_name}
    /\ Contains(results.error.text, "Unknown tool in plan:")

\* --------------------------------------- attachment resolution alone
\* the file step of handle_task with more uploads and names than the plans
\* of Spec bring about: the uploads (distinct names, in upload order) and
\* the logical names a step can ask for
ResolveUploads ==
    {<< >>, <<"data.csv">>, <<"img.png">>,
     <<"data.csv", "img.png">>, <<"DATA.CSV", "data.csv">>,
     <<"dat.csv", "data.csv">>, <<"data.csv", "dat.csv">>,
     <<"img.png", "other.xlsx">>, <<"img.png", "dat.png">>}
ResolveNames == LogicalNames \cup {"dat.png", "other.csv"}

ResolveInit ==
    /\ InitLocals
    /\ entry = "handle_task"
    /\ attachments \in ResolveUploads
    /\ max_global_retries = 1
    /\ pc = "file_step"
    /\ tool = "none"
    /\ tool_arg = NoToolArg
    /\ max_retries = 0
    /\ data_context = << >>
    /\ tool_end = ToolIdle
    /\ requests = << >>
    /\ actor = 0
    /\ tally = << >>

\* agent.py 275-278: the step's input is a dictionary; its file_path is read
ReadFilePath ==
    /\ pc = "file_step"
    /\ \E logical \in ResolveNames : logical_file_path' = logical
    /\ pc' = "resolve"
    /\ UNCHANGED <<inputs, planv, llm_ret, attempt, results, data_context, i, stored,
                   returned, hist, tool, tool_arg, max_retries, frame, execs,
                   oracle_calls, page>>

\* agent.py 285-328: the name is resolved; FileNotFoundError is raised, or
\* handle_file_task is called with the path found
ResolveStep ==
    /\ pc = "resolve"
    /\ LET actual_file == ResolveFile(logical_file_path, attachments)
       IN  IF Unresolved(actual_file)
           THEN /\ pc' = "raised"
                /\ UNCHANGED tool_arg
           ELSE /\ pc' = "handle_file_task"
                /\ tool_arg' = [NoToolArg EXCEPT !.path = actual_file,
                                                 !.file_type = DetectFileType(actual_file)]
    /\ UNCHANGED <<inputs, planv, llm_ret, attempt, results, data_context, i, stored,
                   returned, hist, logical_file_path, tool, max_retries, frame, execs,
                   oracle_calls, page>>

ResolveNext == ReadFilePath \/ ResolveStep

ResolveSpec == ResolveInit /\ [][ResolveNext]_vars

\* the positions of the uploads that a strategy matches with the name
CaseMatches(logical, uploads) ==
    {k \in 1..Len(uploads) : Lower(uploads[k]) = Lower(logical)}
PartMatches(logical, uploads) ==
    {k \in 1..Len(uploads) :
        \/ SubStr(StemLower(logical), StemLower(uploads[k]))
        \/ SubStr(StemLower(uploads[k]), StemLower(logical))}
ExtMatches(logical, uploads) ==
    {k \in 1..Len(uploads) :
        ExtLower(logical) # "" /\ ExtLower(uploads[k]) = ExtLower(logical)}
Lowest(hits) == CHOOSE k \in hits : \A j \in hits : k <= j

\* C37: the name of a file step is resolved by the first of these that
\* finds a file: the exact name, the name without regard to case, the
\* first upload whose name without extension holds or is held by the
\* name's, the only upload with the name's extension, the only upload
\* there is; so an exact name resolves to its file whatever else was
\* uploaded, and with two or more uploads a name that none of them
\* matches is a resolution failure
ResolutionInOrder ==
    pc \in {"handle_file_task", "raised"} /\ logical_file_path # "" =>
        LET L == logical_file_path
            U == attachments
            found == IF pc = "raised" THEN "" ELSE tool_arg.path
            cm == CaseMatches(L, U)
            pm == PartMatches(L, U)
            em == ExtMatches(L, U)
        IN  /\ L \in Elems(U) => found = L
            /\ (L \notin Elems(U) /\ cm # {}) => found = U[Lowest(cm)]
            /\ (L \notin Elems(U) /\ cm = {} /\ pm # {}) => found = U[Lowest(pm)]
            /\ (L \notin Elems(U) /\ cm = {} /\ pm = {} /\ Cardinality(em) = 1) =>
                  found = U[Lowest(em)]
            /\ (L \notin Elems(U) /\ cm = {} /\ pm = {} /\ Cardinality(em) # 1) =>
                  found = (IF Len(U) = 1 THEN U[1] ELSE "")
            /\ (Len(U) >= 2 /\ L \notin Elems(U) /\ cm = {} /\ pm = {} /\ em = {}) =>
                  pc = "raised"
\* of two uploads whose names hold the name asked for, and of which none
\* has its extension alone, the one uploaded first was taken
FirstPartialMatchTaken ==
    /\ pc = "handle_file_task"
    /\ logical_file_path = "dat.png"
    /\ attachments = <<"data.csv", "dat.csv">>
    /\ tool_arg.path = "data.csv"

\* ------------------------------------------- the scope of the scripts
\* The loop of an adapter with the dictionary its scripts run in.  A script
\* binds result or leaves it, may bind another top-level name, and returns
\* or raises at any point; the value it binds to result carries the number
\* of its round.
\* a slip: the dictionary of the round before is used again
KeptScope(old) == old
\* analyze.py 122-127, duckdb_runner.py 113-116, file_handler.py 270-275,
\* fetch.py 168: local_vars = {..., "result": None}
FreshScope(old) == [result |-> NoneVal, names |-> {}, dropped |-> old.result]

\* the check an adapter makes of the value found in result
LoopAccepts(adapter, kind, arg) ==
    CASE adapter = "retrieve_data_as_df" -> DuckdbAccepts(kind)
      [] adapter = "extract_relevant_data" -> FetchAccepts(kind)
      [] adapter = "handle_file_task" -> FileAccepts(kind, arg.desc)
      [] adapter = "analyze_data" -> AnalyzeAccepts(kind)
      [] OTHER -> FALSE

ScopeInit ==
    /\ InitLocals
    /\ entry \in Adapters
    /\ attachments = << >>
    /\ max_global_retries = 0
    /\ pc = "build_scope"
    /\ tool = entry
    /\ tool_arg = NoToolArg
    /\ max_retries \in 1..MaxRetriesArg
    /\ data_context = << >>
    /\ tool_end = ToolRunning
    /\ requests = << >>
    /\ actor = 0
    /\ tally = << >>

\* the head of a round: the dictionary is made
BuildScope ==
    /\ pc = "build_scope"
    /\ scope' = FreshScope(scope)
    /\ pc' = "exec"
    /\ UNCHANGED <<entry, full_task_text, attachments, max_global_retries, requests,
                   actor, tally, planv, toolv, llm_ret, attempt, results,
                   data_context, i, stored, returned, hist>>

\* exec(script, local_vars) and local_vars.get("result"): the value is
\* returned, or the round has failed and the next one begins, or the
\* adapter raises
ScopeExhausted == Exc("RuntimeError", <<"failed after all retries">>)
ExecInScope ==
    /\ pc = "exec"
    /\ \E assigned \in ResultKinds \cup {"unassigned"}, binds \in BOOLEAN, raises \in BOOLEAN :
         LET after == [result |-> IF assigned = "unassigned" THEN scope.result
                                  ELSE Val(assigned, t_attempt + 1),
                       names |-> scope.names \cup (IF binds THEN {"tmp"} ELSE {}),
                       dropped |-> scope.dropped]
             final_result == after.result
         IN  /\ scope' = after
             /\ execs' = execs + 1
             /\ IF ~raises /\ LoopAccepts(tool, final_result.kind, tool_arg)
                THEN /\ tool_value' = final_result
                     /\ tool_end' = ToolReturned
                     /\ pc' = "done"
                     /\ UNCHANGED t_attempt
                ELSE IF InRange(NextAttempt(t_attempt), max_retries)
                THEN /\ t_attempt' = NextAttempt(t_attempt)
                     /\ pc' = "build_scope"
                     /\ UNCHANGED <<tool_value, tool_end>>
                ELSE /\ tool_end' = ToolRaised(ScopeExhausted)
                     /\ pc' = "done"
                     /\ UNCHANGED <<tool_value, t_attempt>>
    /\ UNCHANGED <<entry, full_task_text, attachments, max_global_retries, requests,
                   actor, tally, planv, llm_ret, attempt, results, data_context, i,
                   stored, returned, tool_raw, tool_reads, logical_file_path, tool,
                   tool_arg, max_retries, script, error_log, asked, oracle_calls, page>>

ScopeNext == BuildScope \/ ExecInScope

ScopeSpec == ScopeInit /\ [][ScopeNext]_vars

\* C38: before each execution the scope is new, with result None and
\* without the names an earlier script bound, so the value an adapter
\* returns was bound by the script of the round that returned it
ScopeRebuiltEachRound ==
    /\ pc = "exec" => scope.result = NoneVal /\ scope.names = {}
    /\ (pc = "done" /\ tool_end.kind = "returned") =>
          /\ tool_value = scope.result
          /\ tool_value.att = execs
          /\ tool_value.kind # "None"
\* the first script of retrieve_data_as_df bound result to a table and
\* then raised; the second script bound its own table, which was returned
ReturnedAfterLeftover ==
    /\ pc = "done" /\ tool_end.kind = "returned"
    /\ tool = "retrieve_data_as_df"
    /\ execs = 2
    /\ scope.dropped = Val("DataFrame", 1)
    /\ tool_value = Val("EmptyDataFrame", 2)

\* C39: with max_global_retries = 0 handle_task plans nothing, runs no
\* step, and returns a report to its caller
ZeroBudgetReturnsReport ==
    (TaskRun /\ max_global_retries = 0 /\ pc = "done") =>
        /\ plan_held = "none" /\ plan = NoPlan
        /\ tool = "none" /\ stored = << >>
        /\ returned = "report"
        /\ results.bound
====
